---------------------------- MODULE Spec2Model ----------------------------
(***************************************************************************)
(* Model of ugv_cam: the VideoStream frame source (a worker thread that    *)
(* feeds a queue read by the control thread) and the Agent that fuses a    *)
(* command response with the latest frame into a State.                    *)
(*                                                                         *)
(* Frames are numbered in decode order: frame n is the n-th image that     *)
(* cv2.imdecode decoded successfully.  0 stands for Python's None.         *)
(***************************************************************************)
EXTENDS Integers, Sequences, FiniteSets, TLC

\* ------------------------------------------------------------------ bounds
\* Number of worker threads start() may create in one run of the model.
MaxThreads == 2
\* Number of frames the workers may decode in one run of the model.
MaxFrames == 2

\* --------------------------------------------------------------- constants
\* queue.Queue(maxsize=max_queue_size), max_queue_size: int = 5
max_queue_size == 5

None == 0
NoCall == -1
\* Optional values that are records: <<>> is None, <<x>> is the value x.
Nothing == <<>>
Some(x) == <<x>>
\* No command was sent, so there is neither a response nor a result.
NoResponse == [ok |-> FALSE, dict |-> FALSE, body |-> <<>>]
NoResult == [kind |-> "none"]
\* No pure function was called.
NoPure == [fn |-> "none"]
Threads == 1..MaxThreads

VARIABLES
    \* ---- VideoStream fields
    frame_queue,    \* self.frame_queue: sequence of frames, oldest first
    stop_event,     \* self.stop_event.is_set()
    thread,         \* self.thread: a thread id, or None
    last_frame,     \* self.last_frame
    connected,      \* self.connected
    \* ---- worker threads running _stream_video
    wpc,            \* position of each thread in _stream_video
    wframe,         \* the local variable `frame` of each thread
    \* ---- the control thread (the caller of start/stop/get_latest_frame)
    cpc,            \* position of the caller inside a VideoStream method
    ret,            \* value returned by the last get_latest_frame() call
    \* ---- history (observation only, never read by the modelled code)
    decoded,        \* number of frames decoded so far (= newest frame)
    inserted,       \* newest frame put into frame_queue so far
    callInserted,   \* `inserted` when the current/last get_latest_frame began
    attempts,       \* connection attempts made by each thread
    published,      \* frames put into the queue by each thread
    putFull,        \* put_nowait raised queue.Full at least once
    staleFromQueue, \* the queue delivered a frame older than `inserted`
    lastChunk,      \* outcome of the worker's latest loop iteration
    hadDecodeFail,  \* some extracted image failed to decode
    lastOp,         \* outcome of the caller's latest completed call
    stopPublished,  \* `published` when stop_event was last set
    \* ---- the Agent's latest step() / get_latest_state() call
    callKind,       \* which of the two methods was called
    callResp,       \* what the command transport gave back
    callQueue,      \* frame_queue when the call began
    callLast,       \* last_frame when the call began
    posts,          \* requests.post calls made by the call
    result,         \* the State returned, or the exception raised
    \* ---- the latest calls of the pure functions (schema, kinematics, utils)
    pcall,          \* the latest call: function, arguments, value or error
    pprev           \* the call before it, when the latest call used its value

vsVars == <<frame_queue, stop_event, thread, last_frame, connected>>
wVars == <<wpc, wframe>>
cVars == <<cpc, ret>>
hVars == <<decoded, inserted, callInserted, attempts, published, putFull,
           staleFromQueue, lastChunk, hadDecodeFail, lastOp>>
aVars == <<callKind, callResp, callQueue, callLast, posts, result>>
pVars == <<pcall, pprev>>
qVars == <<pVars, stopPublished>>
vars == <<vsVars, wVars, cVars, hVars, aVars, qVars>>

\* threading.Thread.is_alive(): started and _stream_video has not returned
is_alive(t) == wpc[t] \notin {"unborn", "failed", "dead"}

\* self.thread is not None and self.thread.is_alive()
thread_running == IF thread = None THEN FALSE ELSE is_alive(thread)

\* VideoStream.__init__
Init ==
    /\ frame_queue = <<>>
    /\ stop_event = FALSE
    /\ thread = None
    /\ last_frame = None
    /\ connected = FALSE
    /\ wpc = [t \in Threads |-> "unborn"]
    /\ wframe = [t \in Threads |-> None]
    /\ cpc = "idle"
    /\ ret = NoCall
    /\ decoded = 0
    /\ inserted = 0
    /\ callInserted = 0
    /\ attempts = [t \in Threads |-> 0]
    /\ published = [t \in Threads |-> 0]
    /\ putFull = FALSE
    /\ staleFromQueue = FALSE
    /\ lastChunk = "none"
    /\ hadDecodeFail = FALSE
    /\ lastOp = "none"
    /\ callKind = "none"
    /\ callResp = NoResponse
    /\ callQueue = <<>>
    /\ callLast = None
    /\ posts = 0
    /\ result = NoResult
    /\ pcall = NoPure
    /\ pprev = NoPure
    /\ stopPublished = [t \in Threads |-> 0]


\* ------------------------------------------------------- VideoStream.start
\* start() when self.thread is alive: warn and return, nothing changes.
start_already_running ==
    /\ cpc = "idle"
    /\ thread_running
    /\ lastOp' = "start_noop"
    /\ UNCHANGED <<qVars, aVars, vsVars, wVars, cVars, decoded, inserted, callInserted,
                   attempts, published, putFull, staleFromQueue, lastChunk,
                   hadDecodeFail>>

\* Mutant of start_new_thread: the is_alive() test is missing.
start_new_thread_unguarded ==
    /\ cpc = "idle"
    /\ \E t \in Threads :
        /\ wpc[t] = "unborn"
        /\ \A u \in Threads : u < t => wpc[u] /= "unborn"
        /\ stop_event' = FALSE
        /\ thread' = t
        /\ wpc' = [wpc EXCEPT ![t] = "connect"]
    /\ lastOp' = "start_new"
    /\ UNCHANGED <<qVars, aVars, frame_queue, last_frame, connected, wframe, cVars, decoded,
                   inserted, callInserted, attempts, published, putFull,
                   staleFromQueue, lastChunk, hadDecodeFail>>

\* start() when there is no live thread: clear the event, create and start a
\* new thread, which begins _stream_video.
start_new_thread ==
    /\ cpc = "idle"
    /\ ~thread_running
    /\ \E t \in Threads :
        /\ wpc[t] = "unborn"
        /\ \A u \in Threads : u < t => wpc[u] /= "unborn"
        /\ stop_event' = FALSE
        /\ thread' = t
        /\ wpc' = [wpc EXCEPT ![t] = "connect"]
    /\ lastOp' = "start_new"
    /\ UNCHANGED <<qVars, aVars, frame_queue, last_frame, connected, wframe, cVars, decoded,
                   inserted, callInserted, attempts, published, putFull,
                   staleFromQueue, lastChunk, hadDecodeFail>>

start == start_already_running \/ start_new_thread

\* -------------------------------------------------------- VideoStream.stop
\* stop() when there is no live thread: return at once.
stop_not_running ==
    /\ cpc = "idle"
    /\ ~thread_running
    /\ lastOp' = "stop_noop"
    /\ UNCHANGED <<qVars, aVars, vsVars, wVars, cVars, decoded, inserted, callInserted,
                   attempts, published, putFull, staleFromQueue, lastChunk,
                   hadDecodeFail>>

\* stop(): self.stop_event.set(), then enter self.thread.join(timeout=5.0).
stop_set_event ==
    /\ cpc = "idle"
    /\ thread_running
    /\ stop_event' = TRUE
    /\ stopPublished' = published
    /\ cpc' = "stop_join"
    /\ UNCHANGED <<pVars, aVars, frame_queue, thread, last_frame, connected, wVars, ret,
                   hVars>>

\* Mutant of stop_join_returns: join() without a timeout.
stop_join_no_timeout ==
    /\ cpc = "stop_join"
    /\ ~is_alive(thread)
    /\ connected' = FALSE
    /\ cpc' = "idle"
    /\ lastOp' = "stop_joined"
    /\ UNCHANGED <<qVars, aVars, frame_queue, stop_event, thread, last_frame, wVars, ret,
                   decoded, inserted, callInserted, attempts, published,
                   putFull, staleFromQueue, lastChunk, hadDecodeFail>>

\* join(timeout=5.0) returns, because the thread ended or because the five
\* seconds passed; then self.connected = False and stop() returns.
stop_join_returns ==
    /\ cpc = "stop_join"
    /\ connected' = FALSE
    /\ cpc' = "idle"
    /\ lastOp' = IF is_alive(thread) THEN "stop_timeout" ELSE "stop_joined"
    /\ UNCHANGED <<qVars, aVars, frame_queue, stop_event, thread, last_frame, wVars, ret,
                   decoded, inserted, callInserted, attempts, published,
                   putFull, staleFromQueue, lastChunk, hadDecodeFail>>

stop == stop_not_running \/ stop_set_event \/ stop_join_returns

\* -------------------------------------------- VideoStream.get_latest_frame
\* Mutant of get_nowait_frame: the frame is returned but stays in the queue.
get_nowait_frame_peek ==
    /\ cpc = "idle"
    /\ frame_queue /= <<>>
    /\ ret' = Head(frame_queue)
    /\ frame_queue' = frame_queue
    /\ staleFromQueue' = (staleFromQueue \/ Head(frame_queue) < inserted)
    /\ callInserted' = inserted
    /\ lastOp' = "get_queue"
    /\ UNCHANGED <<qVars, aVars, stop_event, thread, last_frame, connected, wVars, cpc,
                   decoded, inserted, attempts, published, putFull, lastChunk,
                   hadDecodeFail>>

\* self.frame_queue.get_nowait() finds a frame: it is removed and returned.
get_nowait_frame ==
    /\ cpc = "idle"
    /\ frame_queue /= <<>>
    /\ ret' = Head(frame_queue)
    /\ frame_queue' = Tail(frame_queue)
    /\ staleFromQueue' = (staleFromQueue \/ Head(frame_queue) < inserted)
    /\ callInserted' = inserted
    /\ lastOp' = "get_queue"
    /\ UNCHANGED <<qVars, aVars, stop_event, thread, last_frame, connected, wVars, cpc,
                   decoded, inserted, attempts, published, putFull, lastChunk,
                   hadDecodeFail>>

\* self.frame_queue.get_nowait() raises queue.Empty.
get_nowait_empty ==
    /\ cpc = "idle"
    /\ frame_queue = <<>>
    /\ cpc' = "get_except"
    /\ callInserted' = inserted
    /\ UNCHANGED <<qVars, aVars, vsVars, wVars, ret, decoded, inserted, attempts, published,
                   putFull, staleFromQueue, lastChunk, hadDecodeFail, lastOp>>

\* except queue.Empty: return self.last_frame
get_return_last_frame ==
    /\ cpc = "get_except"
    /\ ret' = last_frame
    /\ cpc' = "idle"
    /\ lastOp' = "get_last"
    /\ UNCHANGED <<qVars, aVars, vsVars, wVars, decoded, inserted, callInserted, attempts,
                   published, putFull, staleFromQueue, lastChunk,
                   hadDecodeFail>>

get_latest_frame ==
    get_nowait_frame \/ get_nowait_empty \/ get_return_last_frame


\* ----------------------------------------------- VideoStream._stream_video
\* requests.get(stream_url, stream=True, timeout=10) returns a success
\* status: self.connected = True and the chunk loop begins.
connect_ok(t) ==
    /\ wpc[t] = "connect"
    /\ attempts' = [attempts EXCEPT ![t] = @ + 1]
    /\ connected' = TRUE
    /\ wpc' = [wpc EXCEPT ![t] = "iter"]
    /\ UNCHANGED <<qVars, aVars, frame_queue, stop_event, thread, last_frame, wframe, cVars,
                   decoded, inserted, callInserted, published, putFull,
                   staleFromQueue, lastChunk, hadDecodeFail, lastOp>>

\* Mutant of connect_failed: a failed attempt is tried once more.
connect_failed_retry(t) ==
    /\ wpc[t] = "connect"
    /\ attempts' = [attempts EXCEPT ![t] = @ + 1]
    /\ connected' = FALSE
    /\ wpc' = [wpc EXCEPT ![t] = IF attempts[t] = 0 THEN "connect" ELSE "failed"]
    /\ UNCHANGED <<qVars, aVars, frame_queue, stop_event, thread, last_frame, wframe, cVars,
                   decoded, inserted, callInserted, published, putFull,
                   staleFromQueue, lastChunk, hadDecodeFail, lastOp>>

\* The connection attempt fails: `not response.ok` (connected = False;
\* return) or a RequestException (except: connected = False); the finally
\* clause sets connected = False again and the thread ends.
connect_failed(t) ==
    /\ wpc[t] = "connect"
    /\ attempts' = [attempts EXCEPT ![t] = @ + 1]
    /\ connected' = FALSE
    /\ wpc' = [wpc EXCEPT ![t] = "failed"]
    /\ UNCHANGED <<qVars, aVars, frame_queue, stop_event, thread, last_frame, wframe, cVars,
                   decoded, inserted, callInserted, published, putFull,
                   staleFromQueue, lastChunk, hadDecodeFail, lastOp>>

\* A chunk arrives while stop_event is set: break; finally connected = False.
chunk_stop(t) ==
    /\ wpc[t] = "iter"
    /\ stop_event
    /\ connected' = FALSE
    /\ wpc' = [wpc EXCEPT ![t] = "dead"]
    /\ UNCHANGED <<qVars, aVars, frame_queue, stop_event, thread, last_frame, wframe, cVars,
                   hVars>>

\* iter_content ends (the camera closed the stream) or raises a
\* RequestException: the loop is left and finally sets connected = False.
stream_ends(t) ==
    /\ wpc[t] = "iter"
    /\ connected' = FALSE
    /\ wpc' = [wpc EXCEPT ![t] = "dead"]
    /\ UNCHANGED <<qVars, aVars, frame_queue, stop_event, thread, last_frame, wframe, cVars,
                   hVars>>

\* An empty chunk: `if not chunk: continue`.
chunk_empty(t) ==
    /\ wpc[t] = "iter"
    /\ ~stop_event
    /\ lastChunk' = "empty"
    /\ UNCHANGED <<qVars, aVars, vsVars, wVars, cVars, decoded, inserted, callInserted,
                   attempts, published, putFull, staleFromQueue,
                   hadDecodeFail, lastOp>>

\* The chunk is appended and extract_jpeg finds no complete image.
chunk_no_frame(t) ==
    /\ wpc[t] = "iter"
    /\ ~stop_event
    /\ lastChunk' = "no_frame"
    /\ UNCHANGED <<qVars, aVars, vsVars, wVars, cVars, decoded, inserted, callInserted,
                   attempts, published, putFull, staleFromQueue,
                   hadDecodeFail, lastOp>>

\* Mutant of chunk_decode_failed: the None that imdecode returned is
\* published like a frame.
chunk_decode_failed_published(t) ==
    /\ wpc[t] = "iter"
    /\ ~stop_event
    /\ lastChunk' = "decode_failed"
    /\ hadDecodeFail' = TRUE
    /\ last_frame' = None
    /\ UNCHANGED <<qVars, aVars, frame_queue, stop_event, thread, connected, wVars, cVars,
                   decoded, inserted, callInserted, attempts, published,
                   putFull, staleFromQueue, lastOp>>

\* extract_jpeg returns image bytes and cv2.imdecode returns None:
\* `if frame is not None` is false and the loop goes on to the next chunk.
chunk_decode_failed(t) ==
    /\ wpc[t] = "iter"
    /\ ~stop_event
    /\ lastChunk' = "decode_failed"
    /\ hadDecodeFail' = TRUE
    /\ UNCHANGED <<qVars, aVars, vsVars, wVars, cVars, decoded, inserted, callInserted,
                   attempts, published, putFull, staleFromQueue, lastOp>>

\* Mutant of chunk_decoded: the loop does not test stop_event.
chunk_decoded_flag_ignored(t) ==
    /\ wpc[t] = "iter"
    /\ decoded < MaxFrames
    /\ decoded' = decoded + 1
    /\ wframe' = [wframe EXCEPT ![t] = decoded + 1]
    /\ wpc' = [wpc EXCEPT ![t] = "drain"]
    /\ lastChunk' = "decoded"
    /\ UNCHANGED <<qVars, aVars, vsVars, cVars, inserted, callInserted, attempts, published,
                   putFull, staleFromQueue, hadDecodeFail, lastOp>>

\* extract_jpeg returns image bytes and cv2.imdecode returns a frame.
chunk_decoded(t) ==
    /\ wpc[t] = "iter"
    /\ ~stop_event
    /\ decoded < MaxFrames
    /\ decoded' = decoded + 1
    /\ wframe' = [wframe EXCEPT ![t] = decoded + 1]
    /\ wpc' = [wpc EXCEPT ![t] = "drain"]
    /\ lastChunk' = "decoded"
    /\ UNCHANGED <<qVars, aVars, vsVars, cVars, inserted, callInserted, attempts, published,
                   putFull, staleFromQueue, hadDecodeFail, lastOp>>

\* Mutant of drain_test: the queue is not drained before the insert.
drain_test_skipped(t) ==
    /\ wpc[t] = "drain"
    /\ wpc' = [wpc EXCEPT ![t] = "put"]
    /\ UNCHANGED <<qVars, aVars, vsVars, wframe, cVars, hVars>>

\* while not self.frame_queue.empty():
drain_test(t) ==
    /\ wpc[t] = "drain"
    /\ wpc' = [wpc EXCEPT ![t] = IF frame_queue = <<>> THEN "put" ELSE "drain_get"]
    /\ UNCHANGED <<qVars, aVars, vsVars, wframe, cVars, hVars>>

\* self.frame_queue.get_nowait(); task_done()  -- or queue.Empty: break
drain_get(t) ==
    /\ wpc[t] = "drain_get"
    /\ IF frame_queue /= <<>>
         THEN /\ frame_queue' = Tail(frame_queue)
              /\ wpc' = [wpc EXCEPT ![t] = "drain"]
         ELSE /\ frame_queue' = frame_queue
              /\ wpc' = [wpc EXCEPT ![t] = "put"]
    /\ UNCHANGED <<qVars, aVars, stop_event, thread, last_frame, connected, wframe, cVars,
                   hVars>>

\* self.frame_queue.put_nowait(frame)  -- or queue.Full: pass
put_frame(t) ==
    /\ wpc[t] = "put"
    /\ IF Len(frame_queue) < max_queue_size
         THEN /\ frame_queue' = Append(frame_queue, wframe[t])
              /\ inserted' = wframe[t]
              /\ published' = [published EXCEPT ![t] = @ + 1]
              /\ putFull' = putFull
              /\ wpc' = [wpc EXCEPT ![t] = "set_last"]
         ELSE /\ frame_queue' = frame_queue
              /\ inserted' = inserted
              /\ published' = published
              /\ putFull' = TRUE
              /\ wpc' = [wpc EXCEPT ![t] = "iter"]
    /\ UNCHANGED <<qVars, aVars, stop_event, thread, last_frame, connected, wframe, cVars,
                   decoded, callInserted, attempts, staleFromQueue, lastChunk,
                   hadDecodeFail, lastOp>>

\* self.last_frame = frame
set_last_frame(t) ==
    /\ wpc[t] = "set_last"
    /\ last_frame' = wframe[t]
    /\ wpc' = [wpc EXCEPT ![t] = "iter"]
    /\ UNCHANGED <<qVars, aVars, frame_queue, stop_event, thread, connected, wframe, cVars,
                   hVars>>

stream_video(t) ==
    \/ connect_ok(t)
    \/ connect_failed(t)
    \/ chunk_stop(t)
    \/ stream_ends(t)
    \/ chunk_empty(t)
    \/ chunk_no_frame(t)
    \/ chunk_decode_failed(t)
    \/ chunk_decoded(t)
    \/ drain_test(t)
    \/ drain_get(t)
    \/ put_frame(t)
    \/ set_last_frame(t)

\* ------------------------------------------------------------ VideoStream
Next ==
    \/ start
    \/ stop
    \/ get_latest_frame
    \/ \E t \in Threads : stream_video(t)

Spec == Init /\ [][Next]_vars

\* join(timeout=5.0) returns within five seconds whatever the worker does.
LiveSpec == Spec /\ WF_vars(stop_join_returns)



\* =================================================================== Agent
\* ---------------------------------------------------------------- schema.py
\* Fields of ChassisFeedback, all required.
ChassisFields == {"T", "L", "R", "r", "p", "v"}
\* Fields of ImuData: r and p required, the others Optional with default None.
ImuRequired == {"r", "p"}
ImuOptional == {"ax", "ay", "az", "gx", "gy", "gz", "mx", "my", "mz", "temp"}
ImuFields == ImuRequired \cup ImuOptional

\* ChassisFeedback(**kw): a validation error unless every field is given;
\* keys that are not fields are ignored.
ChassisFeedback(kw) ==
    IF ChassisFields \subseteq DOMAIN kw
      THEN [error |-> FALSE, value |-> [f \in ChassisFields |-> kw[f]]]
      ELSE [error |-> TRUE, value |-> <<>>]

\* ImuData(**kw): a validation error unless r and p are given; optional
\* fields not given are None; keys that are not fields are ignored.
ImuData(kw) ==
    IF ImuRequired \subseteq DOMAIN kw
      THEN [error |-> FALSE,
            value |-> [f \in ImuFields |-> IF f \in DOMAIN kw THEN kw[f] ELSE None]]
      ELSE [error |-> TRUE, value |-> <<>>]

\* {k: v for k, v in response.items() if k != "T"}
without_T(body) == [k \in DOMAIN body \ {"T"} |-> body[k]]

\* ImuData(r=response["r"], p=response["p"]): a KeyError when r or p is not
\* in the response.
ImuFromFeedback(body) ==
    IF ImuRequired \subseteq DOMAIN body
      THEN ImuData([k \in ImuRequired |-> body[k]])
      ELSE [error |-> TRUE, value |-> <<>>]

\* ---------------------------------------------------------------- agent.py
\* What the response handling of a call leaves in its locals, or that it
\* raised.
Parsed(s, f) == [raised |-> FALSE, sensors |-> s, feedback |-> f]
ParseRaised == [raised |-> TRUE, sensors |-> Nothing, feedback |-> Nothing]

\* Mutant of step_response: roll and pitch are taken from each other's field.
step_response_swapped(resp) ==
    IF resp.dict /\ "T" \in DOMAIN resp.body
      THEN IF resp.body["T"] = 1001
             THEN LET fb == ChassisFeedback(resp.body)
                      imu == ImuFromFeedback(resp.body)
                  IN  IF fb.error \/ imu.error
                        THEN ParseRaised
                        ELSE Parsed(Some([imu.value EXCEPT !["r"] = resp.body["p"],
                                                           !["p"] = resp.body["r"]]),
                                    Some(fb.value))
           ELSE IF resp.body["T"] = 1002
             THEN LET imu == ImuData(without_T(resp.body))
                  IN  IF imu.error THEN ParseRaised
                                   ELSE Parsed(Some(imu.value), Nothing)
           ELSE Parsed(Nothing, Nothing)
      ELSE Parsed(Nothing, Nothing)

\* Agent.step, "Process the response based on its type".
step_response(resp) ==
    IF resp.dict /\ "T" \in DOMAIN resp.body
      THEN IF resp.body["T"] = 1001
             THEN LET fb == ChassisFeedback(resp.body)
                      imu == ImuFromFeedback(resp.body)
                  IN  IF fb.error \/ imu.error
                        THEN ParseRaised
                        ELSE Parsed(Some(imu.value), Some(fb.value))
           ELSE IF resp.body["T"] = 1002
             THEN LET imu == ImuData(without_T(resp.body))
                  IN  IF imu.error THEN ParseRaised
                                   ELSE Parsed(Some(imu.value), Nothing)
           ELSE Parsed(Nothing, Nothing)
      ELSE Parsed(Nothing, Nothing)

\* Agent.get_latest_state, the handling of the response.
get_latest_state_response(resp) ==
    IF resp.dict /\ "T" \in DOMAIN resp.body
      THEN IF resp.body["T"] = 1001
             THEN LET fb == ChassisFeedback(resp.body)
                      imu == ImuFromFeedback(resp.body)
                  IN  IF fb.error \/ imu.error
                        THEN ParseRaised
                        ELSE Parsed(Some(imu.value), Some(fb.value))
             ELSE Parsed(Nothing, Nothing)
      ELSE Parsed(Nothing, Nothing)

\* Mutant of latest_frame: no fallback to the last-known frame.
latest_frame_queue_only(q, last) ==
    IF q /= <<>> THEN Head(q) ELSE None

\* The value of self.video_stream.get_latest_frame() when the worker takes no
\* step during the call.
latest_frame(q, last) ==
    IF q /= <<>> THEN Head(q) ELSE last

\* cv2.imencode('.jpg', frame) and buffer.tobytes(): the JPEG bytes of the
\* frame; image_bytes stays None when there is no frame.
image_bytes(frame) ==
    IF frame /= None THEN Some([jpg |-> frame]) ELSE Nothing

\* State(sensors=sensors, feedback=feedback, image=image_bytes)
State(s, f, img) == [kind |-> "state", sensors |-> s, feedback |-> f, image |-> img]
Raised == [kind |-> "raised"]

\* What a call returns for the locals `parsed` and the frame source (q, last).
call_result(parsed, q, last) ==
    IF parsed.raised
      THEN Raised
      ELSE State(parsed.sensors, parsed.feedback, image_bytes(latest_frame(q, last)))

\* What step() returns for a response and a frame source state.
step_result(resp, q, last) == call_result(step_response(resp), q, last)

\* ------------------------------------------------- responses of the vehicle
\* Largest value of a roll or pitch field in the responses tried.
MaxValue == 2

\* The value a response carries under each key other than T, r and p.
FieldValue(k) ==
    CASE k = "L" -> 3 [] k = "R" -> 4 [] k = "v" -> 5
      [] k = "ax" -> 6 [] k = "temp" -> 7 [] OTHER -> 8

\* Key sets tried: the chassis payload complete, with one field missing, or
\* empty, each with or without the optional IMU fields ax and temp.
PayloadKeys ==
    LET full == {"L", "R", "r", "p", "v"}
        opt == {{}, {"ax", "temp"}}
    IN  { (full \ m) \cup o : m \in {{}} \cup {{k} : k \in full}, o \in opt }
        \cup opt

\* Tags tried: chassis feedback, full IMU, one tag step() does not know, and
\* no tag at all (0).
ResponseTags == {1001, 1002, 130, 0}

Body(tag, keys, rv, pv) ==
    [k \in keys \cup (IF tag = 0 THEN {} ELSE {"T"}) |->
        IF k = "T" THEN tag
        ELSE IF k = "r" THEN rv
        ELSE IF k = "p" THEN pv
        ELSE FieldValue(k)]

\* response.json() of a successful POST: a JSON object, or some other JSON
\* value (a list, a number), which has no keys.
Responses ==
    { [ok |-> TRUE, dict |-> TRUE, body |-> Body(tag, keys, rv, pv)] :
        tag \in ResponseTags, keys \in PayloadKeys,
        rv \in 1..MaxValue, pv \in 1..MaxValue }
    \cup { [ok |-> TRUE, dict |-> FALSE, body |-> <<>>] }

\* The ways requests.post / raise_for_status / response.json can fail: an
\* HTTP error status, the 2 s timeout, a connection error, a body that is
\* not JSON.
TransportFailures == {"status", "timeout", "connection", "body"}
Failure(c) == [ok |-> FALSE, dict |-> FALSE, body |-> <<>>, cause |-> c]

\* ------------------------------------------------------------- Agent calls
\* The frame source after a call that read a frame.
AgentReadsFrame(parsed) ==
    IF parsed.raised
      THEN UNCHANGED <<frame_queue, ret, callInserted, staleFromQueue, lastOp>>
      ELSE /\ frame_queue' = IF frame_queue /= <<>> THEN Tail(frame_queue) ELSE frame_queue
           /\ ret' = latest_frame(frame_queue, last_frame)
           /\ callInserted' = inserted
           /\ staleFromQueue' = (staleFromQueue \/
                                   (frame_queue /= <<>> /\ Head(frame_queue) < inserted))
           /\ lastOp' = IF frame_queue /= <<>> THEN "get_queue" ELSE "get_last"

\* step(action) when the POST succeeds.
step_returns ==
    /\ cpc = "idle"
    /\ \E resp \in Responses :
        /\ callKind' = "step"
        /\ callResp' = resp
        /\ callQueue' = frame_queue
        /\ callLast' = last_frame
        /\ posts' = 1
        /\ result' = call_result(step_response(resp), frame_queue, last_frame)
        /\ AgentReadsFrame(step_response(resp))
    /\ UNCHANGED <<qVars, stop_event, thread, last_frame, connected, wVars, cpc,
                   decoded, inserted, attempts, published, putFull, lastChunk,
                   hadDecodeFail>>

\* get_latest_state() when the POST succeeds.
get_latest_state_returns ==
    /\ cpc = "idle"
    /\ \E resp \in Responses :
        /\ callKind' = "get_latest_state"
        /\ callResp' = resp
        /\ callQueue' = frame_queue
        /\ callLast' = last_frame
        /\ posts' = 1
        /\ result' = call_result(get_latest_state_response(resp), frame_queue, last_frame)
        /\ AgentReadsFrame(get_latest_state_response(resp))
    /\ UNCHANGED <<qVars, stop_event, thread, last_frame, connected, wVars, cpc,
                   decoded, inserted, attempts, published, putFull, lastChunk,
                   hadDecodeFail>>

\* Mutant of send_command_raises: the request is sent a second time after
\* the failure.
send_command_retried ==
    /\ cpc = "idle"
    /\ \E kind \in {"step", "get_latest_state"} : callKind' = kind
    /\ \E c \in TransportFailures : callResp' = Failure(c)
    /\ callQueue' = frame_queue
    /\ callLast' = last_frame
    /\ posts' = 2
    /\ result' = Raised
    /\ UNCHANGED <<qVars, vsVars, wVars, cVars, hVars>>

\* Mutant of send_command_raises: the frame source was read before the
\* request failed.
send_command_raises_frame_read ==
    /\ cpc = "idle"
    /\ \E kind \in {"step", "get_latest_state"} : callKind' = kind
    /\ \E c \in TransportFailures : callResp' = Failure(c)
    /\ callQueue' = frame_queue
    /\ callLast' = last_frame
    /\ posts' = 1
    /\ result' = Raised
    /\ frame_queue' = IF frame_queue /= <<>> THEN Tail(frame_queue) ELSE frame_queue
    /\ ret' = latest_frame(frame_queue, last_frame)
    /\ UNCHANGED <<qVars, stop_event, thread, last_frame, connected, wVars, cpc, hVars>>

\* _send_command raises (bad status, timeout, connection error, malformed
\* body): the exception leaves step() / get_latest_state().
send_command_raises ==
    /\ cpc = "idle"
    /\ \E kind \in {"step", "get_latest_state"} : callKind' = kind
    /\ \E c \in TransportFailures : callResp' = Failure(c)
    /\ callQueue' = frame_queue
    /\ callLast' = last_frame
    /\ posts' = 1
    /\ result' = Raised
    /\ UNCHANGED <<qVars, vsVars, wVars, cVars, hVars>>

\* The frame source as the control thread can find it (every one of these
\* is a state of Spec): the worker connected and waiting for a chunk with
\* n frames published so far, or between put_nowait and last_frame = frame.
FrameSourceStates ==
    { [q |-> <<>>, last |-> None, pc |-> "iter",     n |-> 0],
      [q |-> <<1>>, last |-> None, pc |-> "set_last", n |-> 1],
      [q |-> <<1>>, last |-> 1,    pc |-> "iter",     n |-> 1],
      [q |-> <<2>>, last |-> 1,    pc |-> "set_last", n |-> 2],
      [q |-> <<2>>, last |-> 2,    pc |-> "iter",     n |-> 2] }

AgentInit ==
    \E fs \in FrameSourceStates :
        /\ frame_queue = fs.q
        /\ last_frame = fs.last
        /\ stop_event = FALSE
        /\ thread = 1
        /\ connected = TRUE
        /\ wpc = [t \in Threads |-> IF t = 1 THEN fs.pc ELSE "unborn"]
        /\ wframe = [t \in Threads |-> IF t = 1 THEN fs.n ELSE None]
        /\ cpc = "idle"
        /\ ret = NoCall
        /\ decoded = fs.n
        /\ inserted = fs.n
        /\ callInserted = 0
        /\ attempts = [t \in Threads |-> IF t = 1 THEN 1 ELSE 0]
        /\ published = [t \in Threads |-> IF t = 1 THEN fs.n ELSE 0]
        /\ putFull = FALSE
        /\ staleFromQueue = FALSE
        /\ lastChunk = IF fs.n = 0 THEN "none" ELSE "decoded"
        /\ hadDecodeFail = FALSE
        /\ lastOp = "start_new"
        /\ callKind = "none"
        /\ callResp = NoResponse
        /\ callQueue = <<>>
        /\ callLast = None
        /\ posts = 0
        /\ result = NoResult
    /\ pcall = NoPure
    /\ pprev = NoPure
    /\ stopPublished = [t \in Threads |-> 0]

AgentNext ==
    \/ step_returns
    \/ get_latest_state_returns
    \/ send_command_raises

SpecAgent == AgentInit /\ [][AgentNext]_vars

\* ------------------------------------------------ the Agent's whole life
\* The Agent from its constructor to close(), with the worker thread of its
\* VideoStream running beside it.  The caller's position cpc is "ctor_start"
\* after self.video_stream = VideoStream(...), "ctor_wait" in the wait loop,
\* "ctor_probe" before the test command, "idle" between calls, "call_frame"
\* and "call_except" inside the get_latest_frame() of a call, "close_stop"
\* between the stop command of close() and self.video_stream.stop().

\* The history variables no call of the control thread changes.
workerHistory == <<decoded, inserted, attempts, published, putFull, lastChunk,
                   hadDecodeFail>>

\* Responses of the vehicle tried in the life of the Agent: a chassis
\* feedback, a full IMU reading and a message step() does not know.
LifeResponses ==
    { [ok |-> TRUE, dict |-> TRUE, body |-> Body(tag, {"L", "R", "r", "p", "v"}, 1, 2)] :
        tag \in {1001, 1002, 130} }

\* Agent.__init__: self.video_stream.start() on the new VideoStream.
agent_init_start ==
    /\ cpc = "ctor_start"
    /\ ~thread_running
    /\ stop_event' = FALSE
    /\ thread' = 1
    /\ wpc' = [wpc EXCEPT ![1] = "connect"]
    /\ cpc' = "ctor_wait"
    /\ lastOp' = "start_new"
    /\ UNCHANGED <<qVars, aVars, frame_queue, last_frame, connected, wframe, ret,
                   callInserted, staleFromQueue, workerHistory>>

\* Agent.__init__: the loop `while not connected and elapsed < 10` ends,
\* because the worker connected or because the ten seconds passed.
agent_init_wait_ends ==
    /\ cpc = "ctor_wait"
    /\ cpc' = "ctor_probe"
    /\ UNCHANGED <<qVars, aVars, vsVars, wVars, ret, hVars>>

\* Mutant of agent_init_probe: a failure of the test command leaves the
\* constructor.
agent_init_probe_raises ==
    /\ cpc = "ctor_probe"
    /\ \E resp \in LifeResponses \cup {Failure(c) : c \in TransportFailures} :
        /\ callResp' = resp
        /\ result' = IF resp.ok THEN [kind |-> "constructed"] ELSE Raised
    /\ callKind' = "init"
    /\ callQueue' = frame_queue
    /\ callLast' = last_frame
    /\ posts' = 1
    /\ cpc' = "idle"
    /\ UNCHANGED <<qVars, vsVars, wVars, ret, hVars>>

\* Agent.__init__: the test command {"T": 130}; `except Exception` turns a
\* failure into a warning, and the constructor returns.
agent_init_probe ==
    /\ cpc = "ctor_probe"
    /\ \E resp \in LifeResponses \cup {Failure(c) : c \in TransportFailures} :
        callResp' = resp
    /\ callKind' = "init"
    /\ callQueue' = frame_queue
    /\ callLast' = last_frame
    /\ posts' = 1
    /\ result' = [kind |-> "constructed"]
    /\ cpc' = "idle"
    /\ UNCHANGED <<qVars, vsVars, wVars, ret, hVars>>

\* step() / get_latest_state(): the command is sent and its response
\* handled; a failure of the transport or of the validation leaves the call.
call_send ==
    /\ cpc = "idle"
    /\ \E kind \in {"step", "get_latest_state"} :
       \E resp \in LifeResponses \cup {Failure(c) : c \in TransportFailures} :
        LET parsed == IF ~resp.ok THEN ParseRaised
                      ELSE IF kind = "step" THEN step_response(resp)
                      ELSE get_latest_state_response(resp)
        IN  /\ callKind' = kind
            /\ callResp' = resp
            /\ result' = IF parsed.raised THEN Raised
                         ELSE [kind |-> "parsed", sensors |-> parsed.sensors,
                               feedback |-> parsed.feedback]
            /\ cpc' = IF parsed.raised THEN "idle" ELSE "call_frame"
    /\ callQueue' = frame_queue
    /\ callLast' = last_frame
    /\ posts' = 1
    /\ UNCHANGED <<qVars, vsVars, wVars, ret, hVars>>

\* The call's get_latest_frame(): get_nowait() finds a frame; the State is
\* built from it.
call_frame_queued ==
    /\ cpc = "call_frame"
    /\ frame_queue /= <<>>
    /\ ret' = Head(frame_queue)
    /\ frame_queue' = Tail(frame_queue)
    /\ staleFromQueue' = (staleFromQueue \/ Head(frame_queue) < inserted)
    /\ callInserted' = inserted
    /\ lastOp' = "get_queue"
    /\ result' = State(result.sensors, result.feedback, image_bytes(Head(frame_queue)))
    /\ cpc' = "idle"
    /\ UNCHANGED <<qVars, callKind, callResp, callQueue, callLast, posts, stop_event,
                   thread, last_frame, connected, wVars, workerHistory>>

\* The call's get_latest_frame(): get_nowait() raises queue.Empty.
call_frame_empty ==
    /\ cpc = "call_frame"
    /\ frame_queue = <<>>
    /\ cpc' = "call_except"
    /\ callInserted' = inserted
    /\ UNCHANGED <<qVars, aVars, vsVars, wVars, ret, staleFromQueue, lastOp,
                   workerHistory>>

\* The call's get_latest_frame(): return self.last_frame; the State is built
\* from it, with image None when there is no last frame.
call_frame_last ==
    /\ cpc = "call_except"
    /\ ret' = last_frame
    /\ lastOp' = "get_last"
    /\ result' = State(result.sensors, result.feedback, image_bytes(last_frame))
    /\ cpc' = "idle"
    /\ UNCHANGED <<qVars, callKind, callResp, callQueue, callLast, posts, vsVars,
                   wVars, callInserted, staleFromQueue, workerHistory>>

\* Mutant of close_send: a failure of the stop command leaves close().
close_send_raises ==
    /\ cpc = "idle"
    /\ \E resp \in LifeResponses \cup {Failure(c) : c \in TransportFailures} :
        /\ callResp' = resp
        /\ result' = IF resp.ok THEN NoResult ELSE Raised
        /\ cpc' = IF resp.ok THEN "close_stop" ELSE "idle"
    /\ callKind' = "close"
    /\ callQueue' = frame_queue
    /\ callLast' = last_frame
    /\ posts' = 1
    /\ lastOp' = "close_sent"
    /\ UNCHANGED <<qVars, vsVars, wVars, ret, callInserted, staleFromQueue,
                   workerHistory>>

\* close(): the stop command {"T": 1, "L": 0, "R": 0}; `except Exception`
\* turns a failure into a warning.
close_send ==
    /\ cpc = "idle"
    /\ \E resp \in LifeResponses \cup {Failure(c) : c \in TransportFailures} :
        callResp' = resp
    /\ callKind' = "close"
    /\ callQueue' = frame_queue
    /\ callLast' = last_frame
    /\ posts' = 1
    /\ result' = NoResult
    /\ cpc' = "close_stop"
    /\ lastOp' = "close_sent"
    /\ UNCHANGED <<qVars, vsVars, wVars, ret, callInserted, staleFromQueue,
                   workerHistory>>

\* close(): self.video_stream.stop() when there is no live thread.
close_stop_not_running ==
    /\ cpc = "close_stop"
    /\ ~thread_running
    /\ lastOp' = "stop_noop"
    /\ cpc' = "idle"
    /\ UNCHANGED <<qVars, aVars, vsVars, wVars, ret, callInserted, staleFromQueue,
                   workerHistory>>

\* close(): self.video_stream.stop() sets the event and enters join; the
\* join ends by stop_join_returns.
close_stop_set_event ==
    /\ cpc = "close_stop"
    /\ thread_running
    /\ stop_event' = TRUE
    /\ stopPublished' = published
    /\ cpc' = "stop_join"
    /\ UNCHANGED <<pVars, aVars, frame_queue, thread, last_frame, connected, wVars, ret,
                   hVars>>

close == close_send \/ close_stop_not_running \/ close_stop_set_event
            \/ stop_join_returns

\* Before Agent.__init__ calls start(): the VideoStream as built.
LifeInit ==
    /\ frame_queue = <<>>
    /\ stop_event = FALSE
    /\ thread = None
    /\ last_frame = None
    /\ connected = FALSE
    /\ wpc = [t \in Threads |-> "unborn"]
    /\ wframe = [t \in Threads |-> None]
    /\ cpc = "ctor_start"
    /\ ret = NoCall
    /\ decoded = 0
    /\ inserted = 0
    /\ callInserted = 0
    /\ attempts = [t \in Threads |-> 0]
    /\ published = [t \in Threads |-> 0]
    /\ putFull = FALSE
    /\ staleFromQueue = FALSE
    /\ lastChunk = "none"
    /\ hadDecodeFail = FALSE
    /\ lastOp = "none"
    /\ callKind = "none"
    /\ callResp = NoResponse
    /\ callQueue = <<>>
    /\ callLast = None
    /\ posts = 0
    /\ result = NoResult
    /\ pcall = NoPure
    /\ pprev = NoPure
    /\ stopPublished = [t \in Threads |-> 0]

LifeNext ==
    \/ agent_init_start
    \/ agent_init_wait_ends
    \/ agent_init_probe
    \/ call_send
    \/ call_frame_queued
    \/ call_frame_empty
    \/ call_frame_last
    \/ close_send
    \/ close_stop_not_running
    \/ close_stop_set_event
    \/ stop_join_returns
    \/ stream_video(1)

\* The constructor and close() are code of the calling thread, which runs
\* on; the lifecycle makes no assumption about the worker.
SpecLife == LifeInit /\ [][LifeNext]_vars

SpecLifeFair ==
    /\ SpecLife
    /\ WF_vars(agent_init_start)
    /\ WF_vars(agent_init_wait_ends)
    /\ WF_vars(agent_init_probe)
    /\ WF_vars(close_stop_not_running \/ close_stop_set_event)
    /\ WF_vars(stop_join_returns)

\* ------------------------------------------------------- the pure functions
\* Action (schema.py), tank_model and predict_trajectory (kinematics.py),
\* estimate_extrinsics and decompose_extrinsics (utils.py) are applied to
\* arguments drawn from bounded sets; pcall records the latest call and
\* pprev the call whose value it was applied to.

\* What no pure function touches: the frame source and the Agent.
progVars == <<vsVars, wVars, cVars, hVars, aVars, stopPublished>>

\* --------------------------------------------------------------- schema.py
CMD_SPEED_CTRL == 1
CMD_PWM_INPUT == 11
CMD_ROS_CTRL == 13
CMD_SET_MOTOR_PID == 2
CMD_BASE_FEEDBACK == 130

\* The values of the members of ActionEnum.
ActionEnum ==
    {1, 11, 13, 2, 3, -3, 4, 126, 127, 128, 129, 130, 131, 142, 143,
     401, 402, 403, 404, 405, 406, 407, 408, 132, 133, 134, 135, 137, 141,
     100, 101, 102, 103, 104, 1041, 105, 106, 107, 108, 109, 110, 112,
     136, 138, 139, 300, 302, 303, 304, 305, 306,
     200, 201, 202, 203, 204, 205, 206, 501, 502, 503,
     600, 601, 602, 603, 604, 605}

\* required_fields in validate_data_for_action_type: the list of a tag, or
\* the empty list for a tag that is not a key of the dictionary.
required_fields(action_type) ==
    CASE action_type = CMD_SPEED_CTRL -> <<"L", "R">>
      [] action_type = CMD_PWM_INPUT -> <<"L", "R">>
      [] action_type = CMD_ROS_CTRL -> <<"X", "Z">>
      [] OTHER -> <<>>

\* Mutant of missing_fields: the search stops at the first missing field.
missing_fields_first_only(action_type, data) ==
    LET all == SelectSeq(required_fields(action_type),
                         LAMBDA field : field \notin DOMAIN data)
    IN  IF all = <<>> THEN <<>> ELSE <<Head(all)>>

\* [field for field in required_fields[action_type] if field not in data]
missing_fields(action_type, data) ==
    SelectSeq(required_fields(action_type), LAMBDA field : field \notin DOMAIN data)

\* Action(action_type=..., data=...): pydantic rejects an action_type that is
\* not a member of ActionEnum (the validator of data then returns at once);
\* the validator raises ValueError with the list of missing fields;
\* otherwise the Action exists, holding data as given.
Action(action_type, data) ==
    IF action_type \notin ActionEnum
      THEN [error |-> "action_type", missing |-> <<>>, value |-> Nothing]
    ELSE IF missing_fields(action_type, data) /= <<>>
      THEN [error |-> "ValueError", missing |-> missing_fields(action_type, data),
            value |-> Nothing]
    ELSE [error |-> "", missing |-> <<>>,
          value |-> Some([action_type |-> action_type, data |-> data])]

\* Action.to_json_dict: result = {"T": self.action_type.value};
\* result.update(self.data) -- a key of data replaces an equal key of result.
to_json_dict(self) ==
    [k \in {"T"} \cup DOMAIN self.data |->
        IF k \in DOMAIN self.data THEN self.data[k] ELSE self.action_type]

\* Tags tried: the three with required fields, two without, and 0, which is
\* not a member of ActionEnum.
ActionTypesTried ==
    {CMD_SPEED_CTRL, CMD_PWM_INPUT, CMD_ROS_CTRL, CMD_SET_MOTOR_PID,
     CMD_BASE_FEEDBACK, 0}

\* Data dictionaries tried: every set of the keys L, R, X, Z, T and spd, with
\* a value per key; the key T carries the tag of another command.
DataTried ==
    { [k \in ks |-> IF k = "T" THEN tv ELSE FieldValue(k)] :
        ks \in SUBSET {"L", "R", "X", "Z", "T", "spd"},
        tv \in {CMD_SPEED_CTRL, CMD_BASE_FEEDBACK} }

\* ------------------------------------------------------- exact arithmetic
\* The floats of kinematics.py and utils.py are modelled by exact numbers,
\* so that a claim about their values is decided by the formulas of the
\* code and not by rounding.  A rational is <<n, d>> in lowest terms with
\* d > 0.  Angles are built from the right angle and from the angle alpha
\* with cos(alpha) = 4/5 and sin(alpha) = 3/5 (0.6435 rad, 36.87 degrees),
\* whose multiples have rational sines and cosines.
Abs(n) == IF n < 0 THEN -n ELSE n
Min(a, b) == IF a < b THEN a ELSE b

RECURSIVE GCD(_, _)
GCD(a, b) == IF b = 0 THEN a ELSE GCD(b, a % b)

QNorm(n, d) ==
    LET g == GCD(Abs(n), Abs(d))
        s == IF d < 0 THEN -1 ELSE 1
    IN  <<(s * n) \div g, (s * d) \div g>>
QInt(n) == <<n, 1>>
QNeg(a) == <<-a[1], a[2]>>
QAdd(a, b) ==
    LET l == (a[2] \div GCD(a[2], b[2])) * b[2]
    IN  QNorm(a[1] * (l \div a[2]) + b[1] * (l \div b[2]), l)
QSub(a, b) == QAdd(a, QNeg(b))
QMul(a, b) ==
    LET g1 == GCD(Abs(a[1]), b[2])
        g2 == GCD(Abs(b[1]), a[2])
    IN  QNorm((a[1] \div g1) * (b[1] \div g2), (a[2] \div g2) * (b[2] \div g1))
QDiv(a, b) == QMul(a, QNorm(b[2], b[1]))
QLess(a, b) == a[1] * b[2] < b[1] * a[2]

\* cos and sin of alpha.
CosAlpha == <<4, 5>>
SinAlpha == <<3, 5>>

\* <<cos(k * alpha), sin(k * alpha)>> by the addition formulas.
RECURSIVE AdditionFormulas(_)
AdditionFormulas(k) ==
    IF k = 0 THEN <<QInt(1), QInt(0)>>
    ELSE IF k < 0 THEN LET p == AdditionFormulas(-k) IN <<p[1], QNeg(p[2])>>
    ELSE LET p == AdditionFormulas(k - 1)
         IN  <<QSub(QMul(p[1], CosAlpha), QMul(p[2], SinAlpha)),
               QAdd(QMul(p[2], CosAlpha), QMul(p[1], SinAlpha))>>

\* Largest multiple of alpha a yaw or a turn of one step may reach.
MaxTurn == 2

\* The cosines and sines of the multiples of alpha the model uses.
CosSinTable == [k \in (-MaxTurn)..MaxTurn |-> AdditionFormulas(k)]
CosSinAlpha(k) == CosSinTable[k]

\* A float of kinematics.py: the number r + a * alpha, r and a rational
\* (alpha is transcendental, so two such numbers are equal only when their
\* r and their a are).
Num(r, a) == [r |-> r, a |-> a]
Zero == Num(QInt(0), QInt(0))
NAdd(m, n) == Num(QAdd(m.r, n.r), QAdd(m.a, n.a))
NSub(m, n) == Num(QSub(m.r, n.r), QSub(m.a, n.a))
\* the product of a number and a rational
NScale(m, c) == Num(QMul(m.r, c), QMul(m.a, c))
\* the quotient m / n of two numbers: by a rational, or of two multiples
\* of alpha.
NDiv(m, n) ==
    CASE n.a = QInt(0) /\ n.r /= QInt(0) -> NScale(m, QDiv(QInt(1), n.r))
      [] n.r = QInt(0) /\ n.a /= QInt(0) /\ m.r = QInt(0) -> Num(QDiv(m.a, n.a), QInt(0))

\* abs(m) < 1e-6, for a rational and for a multiple of alpha
\* (1e-6 / alpha = 1 / 643501.1).
AbsBelowEpsilon(m) ==
    CASE m.a = QInt(0) -> Abs(m.r[1]) * 1000000 < m.r[2]
      [] m.r = QInt(0) -> Abs(m.a[1]) * 643502 <= m.a[2]

\* np.cos and np.sin of a whole multiple of alpha.
cos(m) == CASE m.r = QInt(0) /\ m.a[2] = 1 -> CosSinAlpha(m.a[1])[1]
sin(m) == CASE m.r = QInt(0) /\ m.a[2] = 1 -> CosSinAlpha(m.a[1])[2]

\* ----------------------------------------------------------- kinematics.py
\* WHEEL_BASE = 0.22
WHEEL_BASE == Num(<<11, 50>>, QInt(0))

\* The wheel speed of n units: n * alpha * WHEEL_BASE metres per second, so
\* that a speed difference of one unit turns the vehicle by alpha a second.
Speed(n) == Num(QInt(0), QMul(QInt(n), WHEEL_BASE.r))
\* A time step of n seconds, a length of n metres, a yaw of k * alpha.
Real(n) == Num(QInt(n), QInt(0))
Yaw(k) == Num(QInt(0), QInt(k))

\* Mutant of tank_model: the local displacement is added to the world
\* position without the rotation by yaw.
tank_model_unrotated(v_l, v_r, current_pose, dt) ==
    LET x == current_pose[1]
        y == current_pose[2]
        z == current_pose[3]
        yaw == current_pose[4]
        v_center == NScale(NAdd(v_r, v_l), <<1, 2>>)
        omega == NDiv(NSub(v_r, v_l), WHEEL_BASE)
        yaw_new == NAdd(yaw, NScale(omega, dt.r))
        straight == AbsBelowEpsilon(omega)
        R == IF straight THEN Zero ELSE NDiv(v_center, omega)
        dx == IF straight THEN Zero
              ELSE NScale(R, QSub(QInt(1), cos(NScale(omega, dt.r))))
        dz == IF straight THEN NScale(v_center, dt.r)
              ELSE NScale(R, sin(NScale(omega, dt.r)))
        x_new == NAdd(x, dx)
        z_new == NAdd(z, dz)
        y_new == y
    IN  <<x_new, y_new, z_new, yaw_new>>

\* tank_model(v_l, v_r, current_pose, dt): the new pose (x, y, z, yaw).
tank_model(v_l, v_r, current_pose, dt) ==
    LET x == current_pose[1]
        y == current_pose[2]
        z == current_pose[3]
        yaw == current_pose[4]
        v_center == NScale(NAdd(v_r, v_l), <<1, 2>>)
        omega == NDiv(NSub(v_r, v_l), WHEEL_BASE)
        yaw_new == NAdd(yaw, NScale(omega, dt.r))
        straight == AbsBelowEpsilon(omega)
        R == IF straight THEN Zero ELSE NDiv(v_center, omega)
        dx == IF straight THEN Zero
              ELSE NScale(R, QSub(QInt(1), cos(NScale(omega, dt.r))))
        dz == IF straight THEN NScale(v_center, dt.r)
              ELSE NScale(R, sin(NScale(omega, dt.r)))
        x_new == NSub(NAdd(x, NScale(dx, cos(yaw))), NScale(dz, sin(yaw)))
        z_new == NAdd(NAdd(z, NScale(dx, sin(yaw))), NScale(dz, cos(yaw)))
        y_new == y
    IN  <<x_new, y_new, z_new, yaw_new>>

\* len(range(k)): range(k) is empty for k <= 0.
range_len(k) == IF k > 0 THEN k ELSE 0

\* pose after the first i iterations of the loop of predict_trajectory
RECURSIVE pose_after(_, _, _)
pose_after(speeds, dt, i) ==
    IF i = 0 THEN <<Zero, Zero, Zero, Zero>>
    ELSE tank_model(speeds[i][1], speeds[i][2], pose_after(speeds, dt, i - 1), dt)

\* trajectory = [(0, 0, 0)] followed by pose[:3] after each of `count`
\* iterations
trajectory_of(speeds, dt, count) ==
    [i \in 1..(count + 1) |->
        IF i = 1 THEN <<Zero, Zero, Zero>>
        ELSE LET pose == pose_after(speeds, dt, i - 1)
             IN  <<pose[1], pose[2], pose[3]>>]

\* Mutant of predict_trajectory: every speed is integrated, n_steps ignored.
predict_trajectory_all_speeds(speeds, dt, n_steps) ==
    trajectory_of(speeds, dt, Len(speeds))

\* predict_trajectory(speeds, dt, n_steps):
\* for i in range(min(len(speeds), n_steps))
predict_trajectory(speeds, dt, n_steps) ==
    trajectory_of(speeds, dt, range_len(Min(Len(speeds), n_steps)))

\* ------------------------------------------------ inputs of the kinematics
\* Largest wheel speed tried, in units.
MaxSpeed == 1
\* Longest list of speeds tried.
MaxLen == 2
SpeedsTried == (-MaxSpeed)..MaxSpeed
\* Time steps tried, in seconds.
StepsTried == {1, 2}
\* Start poses: x and z at 0 or 1 metre, y one metre down, the heading along
\* z or alpha to either side.
PosesTried ==
    { <<Real(x), Real(1), Real(z), Yaw(k)>> :
        x \in {0, 1}, z \in {0, 1}, k \in {-1, 0, 1} }

\* The step (l, r, dt) from the yaw k * alpha stays within the angles the
\* model computes sines and cosines of.
TurnWithinRange(k, l, r, dt) ==
    /\ Abs((r - l) * dt) <= MaxTurn
    /\ Abs(k + (r - l) * dt) <= MaxTurn

\* the yaw, in multiples of alpha, after the first i speeds of a list
RECURSIVE TurnAfter(_, _, _)
TurnAfter(speeds, dt, i) ==
    IF i = 0 THEN 0
    ELSE TurnAfter(speeds, dt, i - 1) + (speeds[i][2] - speeds[i][1]) * dt

\* Lists of at most MaxLen speed pairs, in units: straight on, a turn to
\* either side, and straight back.
SpeedLists ==
    UNION { [1..n -> {<<MaxSpeed, MaxSpeed>>, <<0, MaxSpeed>>, <<MaxSpeed, 0>>,
                      <<-MaxSpeed, -MaxSpeed>>}] : n \in 0..MaxLen }

\* tank_model is applied to a start pose.
integrate ==
    /\ pcall = NoPure
    /\ \E l \in SpeedsTried, r \in SpeedsTried, dt \in StepsTried, pose \in PosesTried :
        /\ TurnWithinRange(pose[4].a[1], l, r, dt)
        /\ pcall' = [fn |-> "tank_model",
                     args |-> [v_l |-> Speed(l), v_r |-> Speed(r),
                               current_pose |-> pose, dt |-> Real(dt)],
                     out |-> tank_model(Speed(l), Speed(r), pose, Real(dt))]
    /\ pprev' = NoPure
    /\ UNCHANGED progVars

\* tank_model is applied to the pose an earlier call returned.
integrate_again ==
    /\ pcall.fn = "tank_model"
    /\ pprev = NoPure
    /\ \E l \in SpeedsTried, r \in SpeedsTried, dt \in StepsTried :
        /\ TurnWithinRange(pcall.out[4].a[1], l, r, dt)
        /\ pcall' = [fn |-> "tank_model",
                     args |-> [v_l |-> Speed(l), v_r |-> Speed(r),
                               current_pose |-> pcall.out, dt |-> Real(dt)],
                     out |-> tank_model(Speed(l), Speed(r), pcall.out, Real(dt))]
    /\ pprev' = pcall
    /\ UNCHANGED progVars

\* predict_trajectory is applied to a list of speeds, a time step and a
\* number of steps, which may be negative or exceed the list.
predict ==
    /\ pcall = NoPure
    /\ \E speeds \in SpeedLists, dt \in StepsTried, n_steps \in (-1)..(MaxLen + 1) :
        /\ \A i \in 1..Len(speeds) :
              TurnWithinRange(TurnAfter(speeds, dt, i - 1), speeds[i][1], speeds[i][2], dt)
        /\ pcall' = [fn |-> "predict_trajectory",
                     args |-> [speeds |-> speeds, dt |-> dt, n_steps |-> n_steps],
                     out |-> predict_trajectory(
                                [i \in 1..Len(speeds) |->
                                    <<Speed(speeds[i][1]), Speed(speeds[i][2])>>],
                                Real(dt), n_steps)]
    /\ pprev' = NoPure
    /\ UNCHANGED progVars

\* ---------------------------------------------------------------- utils.py
\* An angle of utils.py: q right angles plus k times alpha, in degrees or in
\* radians.
Degrees(q, k) == [unit |-> "deg", q |-> q, k |-> k]
Radians(q, k) == [unit |-> "rad", q |-> q, k |-> k]

\* math.radians and math.degrees
radians(angle) == CASE angle.unit = "deg" -> Radians(angle.q, angle.k)
degrees(angle) == CASE angle.unit = "rad" -> Degrees(angle.q, angle.k)

\* <<math.cos(angle), math.sin(angle)>> of an angle in radians: those of
\* k * alpha turned by q right angles.
CosSin(angle) ==
    LET p == CosSinAlpha(angle.k)
        m == angle.q % 4
    IN  CASE angle.unit = "rad" /\ m = 0 -> <<p[1], p[2]>>
          [] angle.unit = "rad" /\ m = 1 -> <<QNeg(p[2]), p[1]>>
          [] angle.unit = "rad" /\ m = 2 -> <<QNeg(p[1]), QNeg(p[2])>>
          [] angle.unit = "rad" /\ m = 3 -> <<p[2], QNeg(p[1])>>

\* The size of an angle in hundredths of a degree, to the nearest one
\* (alpha is 36.87 degrees).
Hundredths(angle) == 9000 * angle.q + 3687 * angle.k

\* math.atan2(y, x): the angle in (-pi, pi] of the direction (x, y), and 0
\* for x = y = 0.  Directions holds the angles of that interval with their
\* cosines and sines.
Directions ==
    { [angle |-> a, cs |-> CosSin(a)] :
        a \in { b \in { Radians(q, k) : q \in (-2)..2, k \in (-MaxTurn)..MaxTurn } :
                    Hundredths(b) > -18000 /\ Hundredths(b) <= 18000 } }
atan2(y, x) ==
    IF x = QInt(0) /\ y = QInt(0) THEN Radians(0, 0)
    ELSE (CHOOSE d \in Directions :
            /\ QMul(d.cs[1], y) = QMul(d.cs[2], x)
            /\ QLess(QInt(0), QAdd(QMul(d.cs[1], x), QMul(d.cs[2], y)))).angle

\* math.sqrt of the square of a rational
sqrt(a) ==
    <<CHOOSE n \in 0..a[1] : n * n = a[1], CHOOSE d \in 1..a[2] : d * d = a[2]>>

\* a @ b for 3x3 matrices
MatMul(a, b) ==
    [i \in 1..3 |-> [j \in 1..3 |->
        QAdd(QAdd(QMul(a[i][1], b[1][j]), QMul(a[i][2], b[2][j])),
             QMul(a[i][3], b[3][j]))]]

\* estimate_extrinsics(x, y, z, R, P, Y): the 4x4 matrix with the rotation
\* Rz @ Ry @ Rx in its upper left block and (x, y, z) in its last column.
estimate_extrinsics(x, y, z, R, P, Y) ==
    LET roll == radians(R)
        pitch == radians(P)
        yaw == radians(Y)
        o == QInt(0)
        l == QInt(1)
        Rz == << <<CosSin(yaw)[1], QNeg(CosSin(yaw)[2]), o>>,
                 <<CosSin(yaw)[2], CosSin(yaw)[1], o>>,
                 <<o, o, l>> >>
        Ry == << <<CosSin(pitch)[1], o, CosSin(pitch)[2]>>,
                 <<o, l, o>>,
                 <<QNeg(CosSin(pitch)[2]), o, CosSin(pitch)[1]>> >>
        Rx == << <<l, o, o>>,
                 <<o, CosSin(roll)[1], QNeg(CosSin(roll)[2])>>,
                 <<o, CosSin(roll)[2], CosSin(roll)[1]>> >>
        Rot == MatMul(MatMul(Rz, Ry), Rx)
    IN  << <<Rot[1][1], Rot[1][2], Rot[1][3], x>>,
           <<Rot[2][1], Rot[2][2], Rot[2][3], y>>,
           <<Rot[3][1], Rot[3][2], Rot[3][3], z>>,
           <<o, o, o, l>> >>

\* Mutant of decompose_extrinsics: the pitch is taken from R[2,0] without
\* the minus sign.
decompose_extrinsics_pitch_sign(extrinsic_matrix) ==
    LET x == extrinsic_matrix[1][4]
        y == extrinsic_matrix[2][4]
        z == extrinsic_matrix[3][4]
        R == extrinsic_matrix
        sy == sqrt(QAdd(QMul(R[1][1], R[1][1]), QMul(R[2][1], R[2][1])))
        singular == QLess(sy, <<1, 1000000>>)
    IN  IF ~singular
          THEN <<x, y, z, degrees(atan2(R[3][2], R[3][3])),
                 degrees(atan2(R[3][1], sy)),
                 degrees(atan2(R[2][1], R[1][1]))>>
          ELSE <<x, y, z, degrees(atan2(QNeg(R[2][3]), R[2][2])),
                 degrees(atan2(R[3][1], sy)),
                 Degrees(0, 0)>>

\* Mutant of decompose_extrinsics: near gimbal lock the roll is taken from
\* the pair (R[2,1], R[2,2]) of the regular branch.
decompose_extrinsics_regular_roll(extrinsic_matrix) ==
    LET x == extrinsic_matrix[1][4]
        y == extrinsic_matrix[2][4]
        z == extrinsic_matrix[3][4]
        R == extrinsic_matrix
        sy == sqrt(QAdd(QMul(R[1][1], R[1][1]), QMul(R[2][1], R[2][1])))
    IN  <<x, y, z, degrees(atan2(R[3][2], R[3][3])),
          degrees(atan2(QNeg(R[3][1]), sy)),
          IF QLess(sy, <<1, 1000000>>) THEN Degrees(0, 0)
          ELSE degrees(atan2(R[2][1], R[1][1]))>>

\* decompose_extrinsics(extrinsic_matrix): (x, y, z, roll, pitch, yaw), the
\* angles in degrees; R[i,j] of the code is R[i+1][j+1] here.
decompose_extrinsics(extrinsic_matrix) ==
    LET x == extrinsic_matrix[1][4]
        y == extrinsic_matrix[2][4]
        z == extrinsic_matrix[3][4]
        R == extrinsic_matrix
        sy == sqrt(QAdd(QMul(R[1][1], R[1][1]), QMul(R[2][1], R[2][1])))
        singular == QLess(sy, <<1, 1000000>>)
    IN  IF ~singular
          THEN <<x, y, z, degrees(atan2(R[3][2], R[3][3])),
                 degrees(atan2(QNeg(R[3][1]), sy)),
                 degrees(atan2(R[2][1], R[1][1]))>>
          ELSE <<x, y, z, degrees(atan2(QNeg(R[2][3]), R[2][2])),
                 degrees(atan2(QNeg(R[3][1]), sy)),
                 Degrees(0, 0)>>

\* Angles tried for roll, pitch and yaw: from -180 to 180 degrees in right
\* angles, each with alpha added or taken away.
AnglesTried == { Degrees(q, k) : q \in (-2)..2, k \in {-1, 0, 1} }

\* Translations tried: the default of estimate_extrinsics, (0, -0.15, 0),
\* and one with three different coordinates.
TranslationsTried ==
    { <<QInt(0), <<-3, 20>>, QInt(0)>>, <<QInt(1), QInt(-2), <<1, 2>>>> }

\* estimate_extrinsics is applied to six parameters.
estimate ==
    /\ pcall = NoPure
    /\ \E t \in TranslationsTried, R \in AnglesTried, P \in AnglesTried, Y \in AnglesTried :
        pcall' = [fn |-> "estimate_extrinsics",
                  args |-> [x |-> t[1], y |-> t[2], z |-> t[3], R |-> R, P |-> P, Y |-> Y],
                  out |-> estimate_extrinsics(t[1], t[2], t[3], R, P, Y)]
    /\ pprev' = NoPure
    /\ UNCHANGED progVars

\* decompose_extrinsics is applied to the matrix estimate_extrinsics built.
decompose ==
    /\ pcall.fn = "estimate_extrinsics"
    /\ pcall' = [fn |-> "decompose_extrinsics",
                 args |-> pcall.out,
                 out |-> decompose_extrinsics(pcall.out)]
    /\ pprev' = pcall
    /\ UNCHANGED progVars

\* ------------------------------------------------------ project_trajectory
\* An image: its shape, the picture it was taken from, and the set of its
\* pixels <<column, row>> that hold the marker colour (0, 255, 0).
Image(height, width, picture, green) ==
    [height |-> height, width |-> width, picture |-> picture, green |-> green]

\* int(v) of a float: the integer part, towards zero.
int(v) == IF v[1] >= 0 THEN v[1] \div v[2] ELSE -((-v[1]) \div v[2])

\* np.linalg.inv of a 4x4 matrix with an orthogonal rotation block R and a
\* last column t, as estimate_extrinsics builds: the block is R transposed,
\* the last column -(R transposed) t.
inv(m) ==
    LET Rt == [i \in 1..3 |-> [j \in 1..3 |-> m[j][i]]]
        t == [i \in 1..3 |->
                QNeg(QAdd(QAdd(QMul(Rt[i][1], m[1][4]), QMul(Rt[i][2], m[2][4])),
                          QMul(Rt[i][3], m[3][4])))]
    IN  << <<Rt[1][1], Rt[1][2], Rt[1][3], t[1]>>,
           <<Rt[2][1], Rt[2][2], Rt[2][3], t[2]>>,
           <<Rt[3][1], Rt[3][2], Rt[3][3], t[3]>>,
           <<QInt(0), QInt(0), QInt(0), QInt(1)>> >>

\* cv2.circle(image, center, radius=3, thickness=-1): the pixels of the image
\* that the filled circle of radius 3 around center covers.
circle(image, center) ==
    { p \in ((center[1] - 3)..(center[1] + 3)) \X ((center[2] - 3)..(center[2] + 3)) :
        /\ (p[1] - center[1]) * (p[1] - center[1])
             + (p[2] - center[2]) * (p[2] - center[2]) <= 10
        /\ p[1] >= 0 /\ p[1] < image.width
        /\ p[2] >= 0 /\ p[2] < image.height }

\* The pixels drawn for one trajectory point: the point in camera
\* coordinates, projected by the intrinsics and divided by its depth; a
\* depth of 0 gives inf or nan, int() raises and nothing is drawn.
point_pixels(image, point, intrinsics, extrinsics) ==
    LET E == inv(extrinsics)
        camera_coords == [i \in 1..3 |->
            QAdd(QAdd(QAdd(QMul(E[i][1], point[1]), QMul(E[i][2], point[2])),
                      QMul(E[i][3], point[3])), E[i][4])]
        projected_points == [i \in 1..3 |->
            QAdd(QAdd(QMul(intrinsics[i][1], camera_coords[1]),
                      QMul(intrinsics[i][2], camera_coords[2])),
                 QMul(intrinsics[i][3], camera_coords[3]))]
    IN  IF projected_points[3][1] = 0 THEN {}
        ELSE circle(image, <<int(QDiv(projected_points[1], projected_points[3])),
                             int(QDiv(projected_points[2], projected_points[3]))>>)

\* Mutant of project_trajectory: the circles are drawn on img itself, which
\* is returned.
project_trajectory_in_place(heap, img, trajectory, intrinsics, extrinsics) ==
    [heap |-> [heap EXCEPT ![img].green = @ \cup
                  UNION { point_pixels(heap[img], trajectory[i], intrinsics, extrinsics) :
                            i \in 1..Len(trajectory) }],
     ref |-> img]

\* project_trajectory(img, trajectory, intrinsics, extrinsics) on a heap of
\* image objects, img being a reference into it: output_img is a new object
\* holding a copy of img, the circles are drawn on it and it is returned.
project_trajectory(heap, img, trajectory, intrinsics, extrinsics) ==
    LET output_img == Len(heap) + 1
        copied == Append(heap, heap[img])
    IN  [heap |-> [copied EXCEPT ![output_img].green = @ \cup
                      UNION { point_pixels(copied[output_img], trajectory[i],
                                           intrinsics, extrinsics) :
                                i \in 1..Len(trajectory) }],
         ref |-> output_img]

\* Images tried: a 640x480 camera frame without a marker, and one that
\* already holds a marker.
ImagesTried ==
    { Image(480, 640, "frame", {}),
      Image(480, 640, "frame", circle(Image(480, 640, "frame", {}), <<10, 10>>)) }

\* Trajectory points tried: ahead of the camera, at the camera's depth,
\* behind it, at the left edge of the picture, far to the left, and ahead
\* to the right.
PointsTried ==
    { <<QInt(0), QInt(0), QInt(1)>>, <<QInt(0), QInt(0), QInt(0)>>,
      <<QInt(0), QInt(0), QInt(-1)>>, <<<<-319, 488>>, QInt(0), QInt(1)>>,
      <<QInt(-5), QInt(0), QInt(1)>>, <<<<1, 2>>, QInt(0), QInt(2)>> }
TrajectoriesTried ==
    UNION { [1..n -> PointsTried] : n \in 0..MaxLen }

\* Intrinsics tried: focal length 488 px (that of a 66.5 degree field of view
\* over 640 px, to the nearest pixel) and the principal point (320, 240).
IntrinsicsTried ==
    { << <<QInt(488), QInt(0), QInt(320)>>,
         <<QInt(0), QInt(488), QInt(240)>>,
         <<QInt(0), QInt(0), QInt(1)>> >> }

\* Extrinsics tried: the matrices of estimate_extrinsics(0, -0.15, 0, R, 0, 0)
\* for a roll R of 0 and of alpha.
ExtrinsicsTried ==
    { << <<QInt(1), QInt(0), QInt(0), QInt(0)>>,
         <<QInt(0), QInt(1), QInt(0), <<-3, 20>>>>,
         <<QInt(0), QInt(0), QInt(1), QInt(0)>>,
         <<QInt(0), QInt(0), QInt(0), QInt(1)>> >>,
      << <<QInt(1), QInt(0), QInt(0), QInt(0)>>,
         <<QInt(0), <<4, 5>>, <<-3, 5>>, <<-3, 20>>>>,
         <<QInt(0), <<3, 5>>, <<4, 5>>, QInt(0)>>,
         <<QInt(0), QInt(0), QInt(0), QInt(1)>> >> }

\* project_trajectory is applied to an image, a trajectory, intrinsics and
\* extrinsics.
project ==
    /\ pcall = NoPure
    /\ \E image \in ImagesTried, trajectory \in TrajectoriesTried,
          intrinsics \in IntrinsicsTried, extrinsics \in ExtrinsicsTried :
        pcall' = [fn |-> "project_trajectory",
                  args |-> [heap |-> <<image>>, img |-> 1, trajectory |-> trajectory,
                            intrinsics |-> intrinsics, extrinsics |-> extrinsics],
                  out |-> project_trajectory(<<image>>, 1, trajectory, intrinsics,
                                             extrinsics)]
    /\ pprev' = NoPure
    /\ UNCHANGED progVars

\* ------------------------------------------------- agent.py: extract_jpeg
\* bytes.find(sub): the lowest index (from 0) at which sub occurs in buffer,
\* or -1.
find(buffer, sub) ==
    LET at == { i \in 0..(Len(buffer) - Len(sub)) :
                    SubSeq(buffer, i + 1, i + Len(sub)) = sub }
    IN  IF at = {} THEN -1 ELSE CHOOSE i \in at : \A j \in at : i <= j

\* buffer[a:b] and buffer[a:] for indices that are not negative.
slice(buffer, a, b) == SubSeq(buffer, a + 1, Min(b, Len(buffer)))
slice_from(buffer, a) == SubSeq(buffer, a + 1, Len(buffer))

\* extract_jpeg(buffer): <<frame_data, buffer>>, frame_data being None
\* (Nothing) or a bytes object (Some).
extract_jpeg(buffer) ==
    LET start_ == find(buffer, <<255, 216>>)
        end_ == find(buffer, <<255, 217>>)
    IN  IF start_ /= -1 /\ end_ /= -1
          THEN <<Some(slice(buffer, start_, end_ + 2)), slice_from(buffer, end_ + 2)>>
          ELSE <<Nothing, buffer>>

\* Chunks tried: up to MaxChunk pieces, each a start marker, an end marker,
\* a byte of image data or a lone FF (a marker cut by the chunk boundary).
MaxChunk == 3
Pieces == { <<255, 216>>, <<255, 217>>, <<0>>, <<255>> }
RECURSIVE Concat(_)
Concat(pieces) ==
    IF pieces = <<>> THEN <<>> ELSE Head(pieces) \o Concat(Tail(pieces))
ChunksTried ==
    { Concat(ps) : ps \in UNION { [1..n -> Pieces] : n \in 1..MaxChunk } }

\* The loop body on the first chunk of a stream: buffer = b'', then
\* buffer += chunk; frame_data, buffer = extract_jpeg(buffer).
receive_chunk ==
    /\ pcall = NoPure
    /\ \E chunk \in ChunksTried :
        pcall' = [fn |-> "extract_jpeg",
                  args |-> <<>> \o chunk,
                  out |-> extract_jpeg(<<>> \o chunk)]
    /\ pprev' = NoPure
    /\ UNCHANGED progVars

\* The loop body on the next chunk, with the buffer the iteration before
\* left.
receive_next_chunk ==
    /\ pcall.fn = "extract_jpeg"
    /\ pprev = NoPure
    /\ \E chunk \in ChunksTried :
        pcall' = [fn |-> "extract_jpeg",
                  args |-> pcall.out[2] \o chunk,
                  out |-> extract_jpeg(pcall.out[2] \o chunk)]
    /\ pprev' = pcall
    /\ UNCHANGED progVars

\* -------------------------------------------------- __main__.py: UGVDemo
MAX_SPEED == <<1, 2>>
SPEED_STEP == <<1, 10>>
JOYSTICK_DEADZONE == <<1, 100>>

\* abs, min and max of Python on exact numbers
abs(a) == <<Abs(a[1]), a[2]>>
min(a, b) == IF QLess(b, a) THEN b ELSE a
max(a, b) == IF QLess(a, b) THEN b ELSE a

\* get_gamepad_input() with a gamepad whose get_axis(i) is axis[i]:
\* <<left_y, right_y>>.
get_gamepad_input(axis) ==
    LET forward_ == QNeg(axis[3])
        turn_ == QNeg(axis[0])
        boost_ == QDiv(QAdd(axis[4], QInt(1)), QInt(2))
        forward == IF QLess(abs(forward_), JOYSTICK_DEADZONE) THEN QInt(0) ELSE forward_
        turn == IF QLess(abs(turn_), JOYSTICK_DEADZONE) THEN QInt(0) ELSE turn_
        boost == QAdd(QMul(boost_, <<3, 4>>), <<1, 4>>)
        clamp == QAdd(<<1, 4>>, boost)
    IN  <<max(min(QSub(forward, turn), clamp), QNeg(clamp)),
          max(min(QAdd(forward, turn), clamp), QNeg(clamp))>>

\* update_speeds_from_keys(keys): <<self.left_speed, self.right_speed>>
\* after the call, keys being the set of pressed keys.
update_speeds_from_keys(left_speed, right_speed, keys) ==
    IF keys \cap {"w", "s", "a", "d"} = {} THEN <<QInt(0), QInt(0)>>
    ELSE LET ws == IF "w" \in keys
                     THEN <<min(QAdd(left_speed, SPEED_STEP), MAX_SPEED),
                            min(QAdd(right_speed, SPEED_STEP), MAX_SPEED)>>
                   ELSE IF "s" \in keys
                     THEN <<max(QSub(left_speed, SPEED_STEP), QNeg(MAX_SPEED)),
                            max(QSub(right_speed, SPEED_STEP), QNeg(MAX_SPEED))>>
                   ELSE <<left_speed, right_speed>>
         IN  IF "a" \in keys
               THEN <<max(QSub(ws[1], SPEED_STEP), QNeg(MAX_SPEED)),
                      min(QAdd(ws[2], SPEED_STEP), MAX_SPEED)>>
             ELSE IF "d" \in keys
               THEN <<min(QAdd(ws[1], SPEED_STEP), MAX_SPEED),
                      max(QSub(ws[2], SPEED_STEP), QNeg(MAX_SPEED))>>
             ELSE ws

\* update_speeds(): the gamepad's input scaled by MAX_SPEED when there is a
\* gamepad (gamepad = Some(axis)), the keyboard otherwise.
update_speeds(left_speed, right_speed, gamepad, keys) ==
    IF gamepad /= Nothing
      THEN <<QMul(get_gamepad_input(gamepad[1])[1], MAX_SPEED),
             QMul(get_gamepad_input(gamepad[1])[2], MAX_SPEED)>>
      ELSE update_speeds_from_keys(left_speed, right_speed, keys)

\* send_speed_command(): the data of the speed command sent.
send_speed_command(speeds) == [L |-> speeds[1], R |-> speeds[2]]

\* Axis positions tried: both ends, the centre, half way, and inside the
\* dead zone.
AxisTried == { QInt(-1), <<-1, 2>>, <<-1, 200>>, QInt(0), <<1, 4>>, <<1, 2>>, QInt(1) }

\* The control loop with a gamepad: update_speeds(), send_speed_command().
control_gamepad ==
    /\ pcall = NoPure
    /\ \E a0 \in AxisTried, a3 \in AxisTried, a4 \in AxisTried :
        LET axis == [i \in {0, 3, 4} |-> IF i = 0 THEN a0 ELSE IF i = 3 THEN a3 ELSE a4]
        IN  pcall' = [fn |-> "send_speed_command",
                      args |-> [left_speed |-> QInt(0), right_speed |-> QInt(0),
                                gamepad |-> Some(axis), keys |-> {}],
                      out |-> send_speed_command(
                                update_speeds(QInt(0), QInt(0), Some(axis), {}))]
    /\ pprev' = NoPure
    /\ UNCHANGED progVars

\* The control loop without a gamepad, from the speeds the construction or
\* the round before left.
control_keys ==
    /\ \/ pcall = NoPure
       \/ pcall.fn = "send_speed_command" /\ pcall.args.gamepad = Nothing
    /\ \E keys \in SUBSET {"w", "s", "a", "d"} :
        LET left_speed == IF pcall = NoPure THEN QInt(0) ELSE pcall.out.L
            right_speed == IF pcall = NoPure THEN QInt(0) ELSE pcall.out.R
        IN  pcall' = [fn |-> "send_speed_command",
                      args |-> [left_speed |-> left_speed, right_speed |-> right_speed,
                                gamepad |-> Nothing, keys |-> keys],
                      out |-> send_speed_command(
                                update_speeds(left_speed, right_speed, Nothing, keys))]
    /\ pprev' = NoPure
    /\ UNCHANGED progVars

\* ---------------------------------------------- the pure functions applied
\* A command is constructed.
construct_action ==
    /\ pcall = NoPure
    /\ \E action_type \in ActionTypesTried, data \in DataTried :
        pcall' = [fn |-> "Action",
                  args |-> [action_type |-> action_type, data |-> data],
                  out |-> Action(action_type, data)]
    /\ pprev' = NoPure
    /\ UNCHANGED progVars

\* A command that was constructed is serialized.
serialize_action ==
    /\ pcall.fn = "Action"
    /\ pcall.out.error = ""
    /\ pcall' = [fn |-> "to_json_dict",
                 args |-> pcall.out.value[1],
                 out |-> to_json_dict(pcall.out.value[1])]
    /\ pprev' = pcall
    /\ UNCHANGED progVars

PureNext ==
    \/ construct_action
    \/ serialize_action
    \/ integrate
    \/ integrate_again
    \/ predict
    \/ estimate
    \/ decompose
    \/ project
    \/ receive_chunk
    \/ receive_next_chunk
    \/ control_gamepad
    \/ control_keys

SpecPure == Init /\ [][PureNext]_vars

\* ================================================================== claims

\* C1: get_latest_frame() returns nothing only while no frame has arrived:
\* a call that begins after a frame was decoded and inserted into the buffer
\* returns a frame, and every frame it returns is one that was decoded.
C1_StickyLastKnownFrame ==
    (cpc = "idle" /\ ret /= NoCall) =>
        /\ (callInserted >= 1 => ret /= None)
        /\ (ret /= None => ret \in 1..decoded)

\* C2: every get_latest_frame() read returns the most recently decoded frame
\* or nothing: never a frame older than the newest one already published
\* when the read began, and nothing only if none had been published.
C2_ReadIsNewestOrNothing ==
    (cpc = "idle" /\ ret /= NoCall) => ret >= callInserted

C4_AtMostOneWorker ==
    Cardinality({t \in Threads : is_alive(t)}) <= 1

\* C4 witness: start() was called after a stop() whose join timed out (the
\* event is still set and the worker still alive) and returned without
\* creating a thread.
C4_Witness ==
    /\ lastOp = "start_noop"
    /\ stop_event
    /\ thread_running

\* C5: stop() sets the cancellation flag and always returns, whatever the
\* worker does.
C5_StopAlwaysReturns ==
    /\ [](cpc = "stop_join" => stop_event)
    /\ ((cpc = "stop_join") ~> (cpc = "idle"))

\* C5 witness: stop() has returned by timeout while the worker is still
\* waiting for a chunk, the flag set and unobserved.
C5_Witness ==
    /\ cpc = "idle"
    /\ lastOp = "stop_timeout"
    /\ stop_event
    /\ thread /= None
    /\ wpc[thread] = "iter"

\* C6: a worker whose connection attempt fails ends at once with connected
\* false, after exactly one attempt and without publishing any frame.
C6_ConnectFailureEndsWorker ==
    /\ [](\A t \in Threads :
            wpc[t] = "failed" => (attempts[t] = 1 /\ published[t] = 0))
    /\ [][\A t \in Threads :
            (wpc[t] = "connect" /\ wpc'[t] /= "connect") =>
                /\ attempts'[t] = 1
                /\ (wpc'[t] = "failed" => ~connected')]_vars

\* C6 witness: start() returned normally and its worker ended on a failed
\* connection attempt.
C6_Witness ==
    /\ thread /= None
    /\ wpc[thread] = "failed"
    /\ ~connected
    /\ lastOp = "start_new"

C8_VariantFollowsTag ==
    (callKind = "step" /\ callResp.ok /\ callResp.dict
        /\ "T" \in DOMAIN callResp.body) =>
      LET b == callResp.body
      IN  /\ (b["T"] = 1001 /\ ChassisFields \subseteq DOMAIN b) =>
                /\ result.kind = "state"
                /\ result.feedback = Some([f \in ChassisFields |-> b[f]])
                /\ result.sensors /= Nothing
                /\ result.sensors[1]["r"] = b["r"]
                /\ result.sensors[1]["p"] = b["p"]
                /\ \A f \in ImuOptional : result.sensors[1][f] = None
          /\ (b["T"] = 1002 /\ ImuRequired \subseteq DOMAIN b) =>
                /\ result.kind = "state"
                /\ result.feedback = Nothing
                /\ result.sensors =
                     Some([f \in ImuFields |-> IF f \in DOMAIN b THEN b[f] ELSE None])
          /\ (b["T"] \in {1001, 1002} /\ result.kind = "state") =>
                /\ result.sensors /= Nothing
                /\ (result.feedback /= Nothing <=> b["T"] = 1001)

\* C8 witness: step() returned feedback and a sensor reading for a tag-1001
\* response whose roll and pitch differ.
C8_Witness ==
    /\ callKind = "step"
    /\ callResp.dict
    /\ "T" \in DOMAIN callResp.body
    /\ callResp.body["T"] = 1001
    /\ result.kind = "state"
    /\ result.feedback /= Nothing
    /\ result.sensors /= Nothing
    /\ result.sensors[1]["r"] = 2
    /\ result.sensors[1]["p"] = 1

\* C9: for a response without a recognized tag step() returns a State with
\* no sensor reading and no feedback, whose image is present exactly when
\* the frame source had a queued or last-known frame.
C9_UnknownTagGivesEmptyState ==
    (callKind = "step" /\ callResp.ok
        /\ ~(callResp.dict /\ "T" \in DOMAIN callResp.body
               /\ callResp.body["T"] \in {1001, 1002})) =>
      /\ result.kind = "state"
      /\ result.sensors = Nothing
      /\ result.feedback = Nothing
      /\ (result.image /= Nothing <=> (callQueue /= <<>> \/ callLast /= None))

\* C9 witness: a response with the unknown tag 130 arrived while the queue
\* was empty and a last-known frame existed; the State carries that frame.
C9_Witness ==
    /\ callKind = "step"
    /\ callResp.dict
    /\ "T" \in DOMAIN callResp.body
    /\ callResp.body["T"] = 130
    /\ callQueue = <<>>
    /\ callLast /= None
    /\ result.kind = "state"
    /\ result.image = Some([jpg |-> callLast])

\* C10: whenever step() would return a State for a response and a frame
\* source state, get_latest_state() returns the same sensor reading, feedback
\* and image for them.
C10_GetLatestStateSameAsStep ==
    (callKind = "get_latest_state" /\ callResp.ok
        /\ step_result(callResp, callQueue, callLast).kind = "state") =>
        result = step_result(callResp, callQueue, callLast)

\* C11: close() first attempts the zero-velocity stop command and only then
\* stops the frame source: the stop event is set only after the one
\* transmission attempt of close().  Whether the stop command succeeded or
\* failed, close() returns without an exception and after
\* VideoStream.stop() ran: the event is set unless no worker was alive.
C11_CloseStopsAfterCommand ==
    /\ []((callKind = "close" /\ cpc = "idle") =>
            /\ result.kind /= "raised"
            /\ posts = 1
            /\ lastOp \in {"stop_noop", "stop_timeout", "stop_joined"}
            /\ (stop_event \/ ~thread_running))
    /\ [][(stop_event' /\ ~stop_event) =>
            (callKind = "close" /\ posts = 1 /\ lastOp = "close_sent")]_vars

\* close() returned after its stop command failed, having set the event and
\* waited out the join on a worker that is still alive.
C11_Witness ==
    /\ callKind = "close"
    /\ cpc = "idle"
    /\ ~callResp.ok
    /\ lastOp = "stop_timeout"
    /\ stop_event

\* C12: when the command transport fails during step() or
\* get_latest_state() (error status, timeout, connection error, malformed
\* body), the call ends with the exception, no State is returned, and
\* exactly one transmission was attempted.
C12_TransportFailurePropagates ==
    (callKind \in {"step", "get_latest_state"} /\ ~callResp.ok) =>
        /\ callResp.cause \in TransportFailures
        /\ result = Raised
        /\ posts = 1

\* step() ended by the exception of a response body that is not JSON.
C12_Witness ==
    /\ callKind = "step"
    /\ callResp = Failure("body")
    /\ result = Raised

\* C13: constructing a command whose tag has a required-field list (speed
\* control and PWM input: L, R; ROS control: X, Z) with a required field
\* absent fails with an error that names exactly the absent required fields,
\* in required-list order (speed control with empty data names L, R); no
\* command object exists, and the data is the one that was passed.
C13_MissingFieldsNamedInOrder ==
    (/\ pcall.fn = "Action"
     /\ pcall.args.action_type \in {CMD_SPEED_CTRL, CMD_PWM_INPUT, CMD_ROS_CTRL}
     /\ \E i \in 1..2 :
            required_fields(pcall.args.action_type)[i] \notin DOMAIN pcall.args.data)
    =>  LET req == required_fields(pcall.args.action_type)
            named == pcall.out.missing
        IN  /\ req = IF pcall.args.action_type = CMD_ROS_CTRL
                       THEN <<"X", "Z">> ELSE <<"L", "R">>
            /\ pcall.out.error = "ValueError"
            /\ pcall.out.value = Nothing
            /\ named = IF req[1] \in DOMAIN pcall.args.data THEN <<req[2]>>
                       ELSE IF req[2] \in DOMAIN pcall.args.data THEN <<req[1]>>
                       ELSE req
            /\ (pcall.args.action_type = CMD_SPEED_CTRL /\ DOMAIN pcall.args.data = {})
                    => named = <<"L", "R">>

\* A speed-control command with empty data was refused, naming L and R.
C13_Witness ==
    /\ pcall.fn = "Action"
    /\ pcall.args.action_type = CMD_SPEED_CTRL
    /\ DOMAIN pcall.args.data = {}
    /\ pcall.out.error = "ValueError"
    /\ pcall.out.missing = <<"L", "R">>

\* C14: the serialized request of a valid command is {T: tag} extended with
\* every named field of the command, and its T field equals the tag of the
\* command whatever field names the data contains.
C14_SerializedTagIsCommandTag ==
    pcall.fn = "to_json_dict" =>
        /\ DOMAIN pcall.out = {"T"} \cup DOMAIN pcall.args.data
        /\ pcall.out["T"] = pcall.args.action_type
        /\ \A k \in DOMAIN pcall.args.data \ {"T"} : pcall.out[k] = pcall.args.data[k]

\* C15: Agent construction completes without raising, whether the camera is
\* reachable or not and whether the vehicle is reachable or not, and it
\* completes: the wait for the camera and the test command both end.  With
\* the camera unreachable the Agent stays usable: a step() answered with a
\* chassis feedback returns a State whose image is absent and whose sensors
\* and feedback are filled from the response.
C15_ConstructionNeverRaises ==
    /\ []((callKind = "init" /\ cpc = "idle") => result = [kind |-> "constructed"])
    /\ []((/\ callKind = "step"
           /\ result.kind = "state"
           /\ wpc[1] = "failed")
          => /\ result.image = Nothing
             /\ (callResp.body["T"] = 1001 =>
                    /\ result.sensors = Some(ImuData([k \in ImuRequired |-> callResp.body[k]]).value)
                    /\ result.feedback = Some(ChassisFeedback(callResp.body).value)))
    /\ (cpc = "ctor_start" ~> callKind = "init")

\* The camera refused the connection, and a step() answered with a chassis
\* feedback returned a State without image, with sensors and feedback.
C15_Witness ==
    /\ callKind = "step"
    /\ wpc[1] = "failed"
    /\ callResp.ok
    /\ callResp.body["T"] = 1001
    /\ result.kind = "state"
    /\ result.image = Nothing
    /\ result.sensors /= Nothing
    /\ result.feedback /= Nothing

\* C16 as stated: a call of get_latest_frame() leaves the pending frame in
\* the buffer and the last-known frame exactly as they were.
C16_ReadLeavesFrameSourceAsItWas ==
    [][get_latest_frame => (frame_queue' = frame_queue /\ last_frame' = last_frame)]_vars

\* C16 amended: a call of get_latest_frame() leaves the last-known frame,
\* the stop flag, the worker and the connection flag as they were and sends
\* nothing; when get_nowait() finds a pending frame the call removes it from
\* the buffer and returns it, otherwise the call leaves the buffer as it is.
C16_ReadOnlyConsumesPendingFrame ==
    [][get_latest_frame =>
        /\ last_frame' = last_frame
        /\ stop_event' = stop_event
        /\ thread' = thread
        /\ connected' = connected
        /\ posts' = posts
        /\ IF cpc = "idle" /\ frame_queue /= <<>>
             THEN ret' = Head(frame_queue) /\ frame_queue' = Tail(frame_queue)
             ELSE frame_queue' = frame_queue]_vars

\* A call took the pending frame out of the buffer: the buffer is empty, the
\* worker has published that frame and stored it as the last-known frame.
C16_Witness ==
    /\ lastOp = "get_queue"
    /\ cpc = "idle"
    /\ ret = inserted
    /\ ret = last_frame
    /\ frame_queue = <<>>

\* C17 as stated: for every speeds list, every dt and every n,
\* predict_trajectory(speeds, dt, n) returns a sequence of length
\* min(len(speeds), n) + 1 whose element 0 is the origin.
C17_TrajectoryLengthForEveryN ==
    pcall.fn = "predict_trajectory" =>
        /\ Len(pcall.out) = Min(Len(pcall.args.speeds), pcall.args.n_steps) + 1
        /\ pcall.out[1] = <<Zero, Zero, Zero>>

\* C17 amended: for every speeds list, every dt and every n >= 0 the
\* sequence has length min(len(speeds), n) + 1; for every n < 0 it has
\* length 1; its element 0 is always the origin.
C17_TrajectoryLength ==
    pcall.fn = "predict_trajectory" =>
        /\ pcall.args.n_steps >= 0 =>
              Len(pcall.out) = Min(Len(pcall.args.speeds), pcall.args.n_steps) + 1
        /\ pcall.args.n_steps < 0 => Len(pcall.out) = 1
        /\ pcall.out[1] = <<Zero, Zero, Zero>>

\* Two speeds with n = 1: the origin and one position away from it.
C17_Witness ==
    /\ pcall.fn = "predict_trajectory"
    /\ Len(pcall.args.speeds) = 2
    /\ pcall.args.n_steps = 1
    /\ Len(pcall.out) = 2
    /\ pcall.out[2] /= <<Zero, Zero, Zero>>

\* C18: for dt > 0 and any pose, tank_model with left velocity = right
\* velocity = v leaves yaw and y unchanged and moves the position by v * dt
\* along the heading, the z axis turned by yaw: x changes by
\* -v * dt * sin(yaw) and z by v * dt * cos(yaw); from yaw 0, x is unchanged
\* and z grows by v * dt.
C18_StraightMotionAlongHeading ==
    (/\ pcall.fn = "tank_model"
     /\ pcall.args.v_l = pcall.args.v_r
     /\ QLess(QInt(0), pcall.args.dt.r))
    =>  LET pose == pcall.args.current_pose
            dist == NScale(pcall.args.v_l, pcall.args.dt.r)
        IN  /\ pcall.out[4] = pose[4]
            /\ pcall.out[2] = pose[2]
            /\ pcall.out[1] = NSub(pose[1], NScale(dist, sin(pose[4])))
            /\ pcall.out[3] = NAdd(pose[3], NScale(dist, cos(pose[4])))
            /\ pose[4] = Zero =>
                    (pcall.out[1] = pose[1] /\ pcall.out[3] = NAdd(pose[3], dist))

\* A straight run of two seconds at one unit of speed from a pose heading
\* alpha off the z axis: x and z both changed.
C18_Witness ==
    /\ pcall.fn = "tank_model"
    /\ pcall.args.v_l = Speed(1)
    /\ pcall.args.v_r = Speed(1)
    /\ pcall.args.dt = Real(2)
    /\ pcall.args.current_pose[4] = Yaw(1)
    /\ pcall.out[1] /= pcall.args.current_pose[1]
    /\ pcall.out[3] /= pcall.args.current_pose[3]
    /\ pcall.out[4] = Yaw(1)

\* C19: tank_model with velocities (l, r) for dt followed by tank_model with
\* (-l, -r) for the same dt returns the original pose (x, y, z, yaw), the
\* turning case l /= r included.
C19_NegatedStepReturnsToPose ==
    (/\ pcall.fn = "tank_model"
     /\ pprev.fn = "tank_model"
     /\ pcall.args.current_pose = pprev.out
     /\ pcall.args.v_l = NSub(Zero, pprev.args.v_l)
     /\ pcall.args.v_r = NSub(Zero, pprev.args.v_r)
     /\ pcall.args.dt = pprev.args.dt)
    => pcall.out = pprev.args.current_pose

\* C20 as stated: for every translation (x, y, z) and every roll, pitch and
\* yaw, decomposing the matrix estimate_extrinsics built from those six
\* parameters returns the same six parameters.
C20_DecomposeInvertsEstimate ==
    (pcall.fn = "decompose_extrinsics" /\ pprev.fn = "estimate_extrinsics") =>
        pcall.out = <<pprev.args.x, pprev.args.y, pprev.args.z,
                      pprev.args.R, pprev.args.P, pprev.args.Y>>

\* C20 amended: for every translation (x, y, z), every roll and yaw strictly
\* between -180 and 180 degrees and every pitch strictly between -90 and 90
\* degrees whose cosine is at least 1e-6, decomposing the matrix built from
\* those six parameters returns the same six parameters.
C20_DecomposeInvertsEstimateInRange ==
    (/\ pcall.fn = "decompose_extrinsics"
     /\ pprev.fn = "estimate_extrinsics"
     /\ Abs(Hundredths(pprev.args.R)) < 18000
     /\ Abs(Hundredths(pprev.args.Y)) < 18000
     /\ Abs(Hundredths(pprev.args.P)) < 9000
     /\ ~QLess(CosSin(radians(pprev.args.P))[1], <<1, 1000000>>))
    =>  pcall.out = <<pprev.args.x, pprev.args.y, pprev.args.z,
                      pprev.args.R, pprev.args.P, pprev.args.Y>>

\* The matrix of roll 126.87, pitch -36.87 and yaw -126.87 degrees at
\* (1, -2, 0.5) was decomposed into these six parameters.
C20_Witness ==
    /\ pcall.fn = "decompose_extrinsics"
    /\ pprev.fn = "estimate_extrinsics"
    /\ pprev.args.R = Degrees(1, 1)
    /\ pprev.args.P = Degrees(0, -1)
    /\ pprev.args.Y = Degrees(-1, -1)
    /\ pcall.out = <<QInt(1), QInt(-2), <<1, 2>>, Degrees(1, 1), Degrees(0, -1),
                     Degrees(-1, -1)>>

\* C22: when the rotation block of the matrix is near gimbal lock
\* (sqrt(R[0,0]^2 + R[1,0]^2) < 1e-6), decompose_extrinsics returns yaw = 0
\* and the roll of the entry pair (-R[1,2], R[1,1]); otherwise the roll of
\* the pair (R[2,1], R[2,2]); the translation is the last column of the
\* matrix in both branches.
C22_GimbalLockBranch ==
    pcall.fn = "decompose_extrinsics" =>
        LET R == pcall.args
            near == QLess(sqrt(QAdd(QMul(R[1][1], R[1][1]), QMul(R[2][1], R[2][1]))),
                          <<1, 1000000>>)
        IN  /\ pcall.out[1] = R[1][4]
            /\ pcall.out[2] = R[2][4]
            /\ pcall.out[3] = R[3][4]
            /\ near => /\ pcall.out[6] = Degrees(0, 0)
                       /\ pcall.out[4] = degrees(atan2(QNeg(R[2][3]), R[2][2]))
            /\ ~near => pcall.out[4] = degrees(atan2(R[3][2], R[3][3]))

\* The matrix of roll 36.87, pitch 90 and yaw 90 degrees at (1, -2, 0.5),
\* whose first column is (0, 0, -1), was decomposed into roll -53.13,
\* pitch 90 and yaw 0.
C22_Witness ==
    /\ pcall.fn = "decompose_extrinsics"
    /\ pprev.fn = "estimate_extrinsics"
    /\ pprev.args.R = Degrees(0, 1)
    /\ pprev.args.P = Degrees(1, 0)
    /\ pprev.args.Y = Degrees(1, 0)
    /\ pcall.args[1][1] = QInt(0)
    /\ pcall.args[2][1] = QInt(0)
    /\ pcall.out = <<QInt(1), QInt(-2), <<1, 2>>, Degrees(-1, 1), Degrees(1, 0),
                     Degrees(0, 0)>>

\* C21: project_trajectory never changes its input image: for every image,
\* trajectory, intrinsics and extrinsics, every image object that existed
\* before the call, the input image among them, holds after the call what it
\* held before, and the returned image is another object, the input image
\* with the markers added.
C21_InputImageUntouched ==
    pcall.fn = "project_trajectory" =>
        /\ \A r \in 1..Len(pcall.args.heap) : pcall.out.heap[r] = pcall.args.heap[r]
        /\ pcall.out.ref /= pcall.args.img
        /\ pcall.args.heap[pcall.args.img].green \subseteq pcall.out.heap[pcall.out.ref].green

\* A frame without markers was given with the point 1 m ahead of the camera:
\* the returned image holds the marker around pixel (320, 313), the input
\* image holds none.
C21_Witness ==
    /\ pcall.fn = "project_trajectory"
    /\ pcall.args.trajectory = << <<QInt(0), QInt(0), QInt(1)>> >>
    /\ pcall.args.heap[pcall.args.img].green = {}
    /\ <<320, 313>> \in pcall.out.heap[pcall.out.ref].green
    /\ <<323, 313>> \in pcall.out.heap[pcall.out.ref].green
    /\ <<324, 313>> \notin pcall.out.heap[pcall.out.ref].green
    /\ pcall.out.heap[pcall.args.img].green = {}

\* C27: a step() or get_latest_state() whose command transmission fails does
\* not read the frame source: the queue, a pending frame included, and the
\* last-known frame are after the call what they were before it, and the
\* next call that returns a State delivers the frame the failed call found.
C27_FailedCallLeavesFrame ==
    [][/\ (callKind' \in {"step", "get_latest_state"} /\ ~callResp'.ok) =>
            (frame_queue' = frame_queue /\ last_frame' = last_frame /\ ret' = ret)
       /\ (/\ callKind \in {"step", "get_latest_state"}
           /\ ~callResp.ok
           /\ callResp'.ok
           /\ result'.kind = "state") =>
            result'.image = image_bytes(latest_frame(callQueue, callLast))]_vars

\* get_latest_state() ended by a timeout while frame 2 was pending in the
\* queue and frame 1 was the last-known frame: both are still there.
C27_Witness ==
    /\ callKind = "get_latest_state"
    /\ callResp = Failure("timeout")
    /\ callQueue = <<2>>
    /\ callLast = 1
    /\ frame_queue = <<2>>
    /\ last_frame = 1
    /\ ret = NoCall

\* C23: a get_latest_frame() call never returns a frame older than the frame
\* an earlier get_latest_frame() call returned (frames are numbered in the
\* order the worker decoded them).
C23_FreshnessMonotonic ==
    [][(ret \notin {NoCall, None} /\ ret' \notin {NoCall, None}) => ret' >= ret]_vars

\* C24: once stop() has returned, connected is false and stays false for as
\* long as the caller makes no further call (start() in particular),
\* whatever the worker does.
C24_ConnectedStaysFalseAfterStop ==
    [][(/\ lastOp \in {"stop_noop", "stop_joined", "stop_timeout"}
        /\ cpc = "idle"
        /\ cpc' = "idle"
        /\ lastOp' = lastOp) => (~connected /\ ~connected')]_vars

\* C25: whenever start() returns, after a stop() or not, self.thread is a
\* live worker and the cancellation flag stop_event is clear.
C25_StartLeavesLiveUncancelledWorker ==
    [][((lastOp' = "start_new" /\ thread' /= thread)
            \/ (lastOp' = "start_noop" /\ lastOp /= "start_noop"))
        => (thread_running' /\ ~stop_event')]_vars

\* C28: while the cancellation flag stop_event is set, a worker publishes at
\* most one frame more than it had published when the flag was set, and
\* that frame was decoded before the flag was set: no chunk is decoded, and
\* a worker that receives a chunk at the top of the loop ends with
\* connected = false.
C28_AtMostOneFrameAfterFlag ==
    [][(stop_event /\ stop_event') =>
        /\ decoded' = decoded
        /\ lastChunk' = lastChunk
        /\ \A t \in Threads :
            /\ published'[t] <= stopPublished'[t] + 1
            /\ published'[t] > published[t] => wframe[t] <= decoded
            /\ (wpc[t] = "iter" /\ wpc'[t] /= "iter") =>
                    (wpc'[t] = "dead" /\ ~connected')]_vars

\* stop() set the flag while the worker was about to publish frame 1; the
\* worker published it, met the flag at its next chunk and ended.
C28_Witness ==
    /\ stop_event
    /\ wpc[1] = "dead"
    /\ stopPublished[1] = 0
    /\ published[1] = 1
    /\ last_frame = 1
    /\ ~connected

\* C26: whenever extract_jpeg returns a frame for a buffer, the frame is a
\* contiguous slice of the buffer that begins with FF D8 and ends with
\* FF D9 and the returned remainder is exactly the bytes after that end
\* marker; otherwise it returns no frame and the buffer itself.
C26_FrameIsDelimitedSlice ==
    pcall.fn = "extract_jpeg" =>
        LET buffer == pcall.args
            frame_data == pcall.out[1]
            rest == pcall.out[2]
        IN  IF frame_data /= Nothing
              THEN \E i \in 1..Len(buffer), j \in 1..Len(buffer) :
                    /\ i + 3 <= j
                    /\ frame_data = Some(SubSeq(buffer, i, j))
                    /\ SubSeq(buffer, i, i + 1) = <<255, 216>>
                    /\ SubSeq(buffer, j - 1, j) = <<255, 217>>
                    /\ rest = SubSeq(buffer, j + 1, Len(buffer))
              ELSE rest = buffer

\* C29: after the worker has processed a chunk, its accumulation buffer
\* holds no complete image, that is no start marker FF D8 followed later by
\* an end marker FF D9 (stated for the buffers in which no end marker comes
\* before the first start marker).
C29_NoCompleteImageLeftInBuffer ==
    (/\ pcall.fn = "extract_jpeg"
     /\ \/ find(pcall.args, <<255, 217>>) = -1
        \/ find(pcall.args, <<255, 216>>) < find(pcall.args, <<255, 217>>)) =>
        LET buffer == pcall.out[2]
        IN  ~ \E i \in 1..(Len(buffer) - 1), j \in 1..(Len(buffer) - 1) :
                /\ i + 2 <= j
                /\ SubSeq(buffer, i, i + 1) = <<255, 216>>
                /\ SubSeq(buffer, j, j + 1) = <<255, 217>>

\* C30: every speed command the demo control loop sends has |L| <= MAX_SPEED
\* and |R| <= MAX_SPEED, for every sequence of keyboard states and every
\* position of the gamepad's sticks and trigger.
C30_SpeedCommandWithinMaxSpeed ==
    pcall.fn = "send_speed_command" =>
        /\ ~QLess(MAX_SPEED, abs(pcall.out.L))
        /\ ~QLess(MAX_SPEED, abs(pcall.out.R))

=============================================================================
